---- MODULE Spec2Model ----
(***************************************************************************)
(* The MCTS content optimizer of tools/mcts_content_optimizer.py (class    *)
(* Tools): improve_content, the search loop _run_mcts, candidate creation, *)
(* evaluation parsing and the retry wrapper around the completion service. *)
(*                                                                         *)
(* Conventions.  A Python str is a sequence of lexemes: a lexeme is one     *)
(* character, or a word or number written as one string, whose length and  *)
(* lower-case form the tables below give.  A Python float that the code    *)
(* compares or averages is an exact rational                               *)
(* <<numerator, denominator>> in lowest terms.  None is the string "None". *)
(* A dict is a sequence of [m, v] items in insertion order.  A node is an  *)
(* index into the sequence nodes (object identity); parent 0 is None.      *)
(***************************************************************************)
EXTENDS Integers, Sequences, FiniteSets, TLC

None == "None"

(***************************************************************************)
(* Rationals                                                               *)
(***************************************************************************)
RECURSIVE GCD(_, _)
GCD(a, b) == IF b = 0 THEN a ELSE GCD(b, a % b)

Reduced(n, d, g) == <<n \div g, d \div g>>

Rat(n, d) == Reduced(n, d, GCD(n, d))

RAdd(a, b) == Rat(a[1] * b[2] + b[1] * a[2], a[2] * b[2])

RDivInt(a, k) == Rat(a[1], a[2] * k)

RMulInt(a, k) == Rat(a[1] * k, a[2])

RLess(a, b) == a[1] * b[2] < b[1] * a[2]

RLeq(a, b) == a[1] * b[2] <= b[1] * a[2]

RECURSIVE RSum(_)
RSum(s) == IF s = <<>> THEN <<0, 1>> ELSE RAdd(Head(s), RSum(Tail(s)))

RAvg(s) == RDivInt(RSum(s), Len(s))

(***************************************************************************)
(* str operations: len, strip, split, lower                                *)
(***************************************************************************)
Whitespace == {" ", "\n"}

\* The words of the model's texts: as written, len(word), word.lower().
\* Every other lexeme is a single character or is never measured.
WordTable ==
    << <<"paragraph", 9, "paragraph">>, <<"Paragraph", 9, "paragraph">>,
       <<"sentences", 9, "sentences">>, <<"structure", 9, "structure">>,
       <<"arguments", 9, "arguments">>, <<"evidences", 9, "evidences">>,
       <<"narrative", 9, "narrative">>, <<"revisions", 9, "revisions">>,
       <<"summaries", 9, "summaries">>, <<"citations", 9, "citations">>,
       <<"footnotes", 9, "footnotes">>, <<"the", 3, "the">> >>

IsWord(x) == \E i \in 1..Len(WordTable) : WordTable[i][1] = x

word_row(x) == WordTable[CHOOSE i \in 1..Len(WordTable) : WordTable[i][1] = x]

lexeme_len(x) == IF IsWord(x) THEN word_row(x)[2] ELSE 1

\* len(s): the lengths of the lexemes, summed by halves
RECURSIVE len(_)
len(s) ==
    IF s = <<>> THEN 0
    ELSE IF Len(s) = 1 THEN lexeme_len(s[1])
    ELSE len(SubSeq(s, 1, Len(s) \div 2)) + len(SubSeq(s, (Len(s) \div 2) + 1, Len(s)))

NonSpace(s) == {i \in 1..Len(s) : s[i] \notin Whitespace}

Min(S) == CHOOSE x \in S : \A y \in S : x <= y

Max(S) == CHOOSE x \in S : \A y \in S : y <= x

Between(s, kept) == IF kept = {} THEN <<>> ELSE SubSeq(s, Min(kept), Max(kept))

\* s.strip(): from the first to the last lexeme that is no whitespace
strip(s) == Between(s, NonSpace(s))

lower_lexeme(x) == IF IsWord(x) THEN word_row(x)[3] ELSE x

\* s.lower()
lower(s) == SubSeq([i \in 1..Len(s) |-> lower_lexeme(s[i])], 1, Len(s))

\* set(s.split()): the maximal runs of lexemes that are no whitespace
word_starts(s) == {i \in NonSpace(s) : i = 1 \/ s[i - 1] \in Whitespace}

word_ends(s) == {j \in NonSpace(s) : j = Len(s) \/ s[j + 1] \in Whitespace}

Runs(s, starts, ends) == {SubSeq(s, i, Min({j \in ends : j >= i})) : i \in starts}

word_set(s) == Runs(s, word_starts(s), word_ends(s))

ToSet(s) == {s[i] : i \in 1..Len(s)}

\* _similarity: Jaccard index of the two lower-cased word sets, 0 when either
\* set is empty.
jaccard(a_words, b_words) ==
    IF a_words = {} \/ b_words = {}
    THEN <<0, 1>>
    ELSE Rat(Cardinality(a_words \cap b_words), Cardinality(a_words \cup b_words))

similarity(a, b) == jaccard(word_set(lower(a)), word_set(lower(b)))

(***************************************************************************)
(* Optional[str]: None is the one-element sequence <<"None">>, which is no *)
(* text (texts hold characters or lexemes).  Truthy is Python's `if x`.    *)
(***************************************************************************)
NoneStr == <<None>>

Truthy(x) == x # NoneStr /\ x # <<>>

(***************************************************************************)
(* The completion service.  A response is a timeout or an HTTP response    *)
(* with a status and a JSON body; the body is malformed, of a known shape  *)
(* (choices[0].message.content, choices[0].text, output, content,          *)
(* response) carrying a content string, or of an unknown shape.            *)
(***************************************************************************)
RetryableStatus == {429, 500, 502, 503}

KnownShapes == {"choices_message", "choices_text", "output", "content", "response"}

Timeout == [kind |-> "timeout", status |-> 0, shape |-> "", content |-> <<>>]

Http(status, shape, content) ==
    [kind |-> "http", status |-> status, shape |-> shape, content |-> content]

Ok(content) == Http(200, "choices_message", content)

\* _llm_call_raw: one request.  ret is the returned value, raised says that
\* the request raised (exc is str(e)), last_error is self._last_error after it.
llm_call_raw(resp, last_error) ==
    IF resp.kind = "timeout"
    THEN [ret |-> NoneStr, raised |-> TRUE, exc |-> <<"">>, last_error |-> last_error]
    ELSE IF resp.status # 200
    THEN IF resp.status \in RetryableStatus
         THEN [ret |-> NoneStr, raised |-> TRUE, exc |-> <<"API", resp.status>>,
               last_error |-> <<"API", resp.status>>]
         ELSE [ret |-> NoneStr, raised |-> FALSE, exc |-> <<"">>,
               last_error |-> <<"API", resp.status>>]
    ELSE IF resp.shape = "malformed"
    THEN [ret |-> NoneStr, raised |-> TRUE, exc |-> <<"JSONDecodeError">>,
          last_error |-> last_error]
    ELSE IF resp.shape \in KnownShapes /\ resp.content # <<>>
    THEN [ret |-> strip(resp.content), raised |-> FALSE, exc |-> <<"">>,
          last_error |-> last_error]
    ELSE [ret |-> NoneStr, raised |-> FALSE, exc |-> <<"">>,
          last_error |-> <<"Unknown response">>]

\* _llm_call: the body of one turn of `for attempt in range(max_retries)`,
\* for the request answered by resp.  done says that _llm_call returns.
\* self._last_error after `except Exception as e: self._last_error = str(e)`
error_after(r) == IF r.raised THEN r.exc ELSE r.last_error

\* llm_call_turn with one more turn of the loop
llm_call_turn_one_more(attempt, r, max_retries) ==
    IF ~r.raised /\ Truthy(r.ret)
    THEN [done |-> TRUE, result |-> r.ret, attempt |-> attempt, last_error |-> error_after(r)]
    ELSE IF attempt < max_retries
    THEN [done |-> FALSE, result |-> NoneStr, attempt |-> attempt + 1,
          last_error |-> error_after(r)]
    ELSE [done |-> TRUE, result |-> NoneStr, attempt |-> attempt + 1,
          last_error |-> error_after(r)]

\* llm_call_turn as `while True`: the call returns only with a text
llm_call_turn_until_text(attempt, r, max_retries) ==
    IF ~r.raised /\ Truthy(r.ret)
    THEN [done |-> TRUE, result |-> r.ret, attempt |-> attempt, last_error |-> error_after(r)]
    ELSE [done |-> FALSE, result |-> NoneStr, attempt |-> attempt + 1,
          last_error |-> error_after(r)]

\* the body of one turn of `for attempt in range(max_retries)` after the
\* request ended as r
llm_call_turn(attempt, r, max_retries) ==
    IF ~r.raised /\ Truthy(r.ret)
    THEN [done |-> TRUE, result |-> r.ret, attempt |-> attempt, last_error |-> error_after(r)]
    ELSE IF attempt < max_retries - 1
    THEN [done |-> FALSE, result |-> NoneStr, attempt |-> attempt + 1,
          last_error |-> error_after(r)]
    ELSE [done |-> TRUE, result |-> NoneStr, attempt |-> attempt + 1,
          last_error |-> error_after(r)]

llm_call(attempt, resp, last_error, max_retries) ==
    llm_call_turn(attempt, llm_call_raw(resp, last_error), max_retries)

\* _test_api: one raw request, no retry; any exception gives False.
bool_result(r) == [ok |-> ~r.raised /\ Truthy(r.ret), last_error |-> error_after(r)]

test_api(resp, last_error) == bool_result(llm_call_raw(resp, last_error))

(***************************************************************************)
(* Lexemes.  The text of an evaluation or metric-generation response is a  *)
(* sequence of lexemes instead of characters: a number, a name, ":", a     *)
(* whitespace character, or another word.  NumberTable gives float(lexeme) *)
(* in tenths; NameTable gives, for a name as written, its upper-case form, *)
(* its normalised form (strip, upper, spaces to underscores: what          *)
(* _generate_metrics stores) and its form without separators (what the     *)
(* second pattern of _parse_dynamic_scores compares).                      *)
(***************************************************************************)
NumberTable ==
    << <<"0", 0>>, <<"0.5", 5>>, <<"1", 10>>, <<"4", 40>>, <<"5", 50>>, <<"7.5", 75>>,
       <<"9", 90>>, <<"10", 100>>, <<"10.5", 105>>, <<"15", 150>> >>

NameTable ==
    << [lex |-> "TONE", up |-> "TONE", norm |-> "TONE", key |-> "TONE"],
       [lex |-> "tone", up |-> "TONE", norm |-> "TONE", key |-> "TONE"],
       [lex |-> "DEPTH", up |-> "DEPTH", norm |-> "DEPTH", key |-> "DEPTH"],
       [lex |-> "CLARITY", up |-> "CLARITY", norm |-> "CLARITY", key |-> "CLARITY"],
       [lex |-> "Clarity", up |-> "CLARITY", norm |-> "CLARITY", key |-> "CLARITY"],
       [lex |-> "COMPLETENESS", up |-> "COMPLETENESS", norm |-> "COMPLETENESS",
        key |-> "COMPLETENESS"],
       [lex |-> "ACCURACY", up |-> "ACCURACY", norm |-> "ACCURACY", key |-> "ACCURACY"],
       [lex |-> "ENGAGEMENT", up |-> "ENGAGEMENT", norm |-> "ENGAGEMENT",
        key |-> "ENGAGEMENT"],
       [lex |-> "EVIDENCE_QUALITY", up |-> "EVIDENCE_QUALITY",
        norm |-> "EVIDENCE_QUALITY", key |-> "EVIDENCEQUALITY"],
       [lex |-> "Evidence Quality", up |-> "EVIDENCE QUALITY",
        norm |-> "EVIDENCE_QUALITY", key |-> "EVIDENCEQUALITY"] >>

IsNumber(x) == \E i \in 1..Len(NumberTable) : NumberTable[i][1] = x

number_value(x) ==
    Rat(NumberTable[CHOOSE i \in 1..Len(NumberTable) : NumberTable[i][1] = x][2], 10)

IsName(x) == \E i \in 1..Len(NameTable) : NameTable[i].lex = x

name_row(x) == NameTable[CHOOSE i \in 1..Len(NameTable) : NameTable[i].lex = x]

(***************************************************************************)
(* dict helpers: items in insertion order                                  *)
(***************************************************************************)
has_key(d, m) == \E i \in 1..Len(d) : d[i].m = m

get(d, m, default) ==
    IF has_key(d, m) THEN d[CHOOSE i \in 1..Len(d) : d[i].m = m].v ELSE default

values(d) == [i \in 1..Len(d) |-> d[i].v]

\* d[m] = v: an existing key keeps its place
set_item(d, m, v) ==
    IF has_key(d, m)
    THEN [i \in 1..Len(d) |-> IF d[i].m = m THEN [m |-> m, v |-> v] ELSE d[i]]
    ELSE Append(d, [m |-> m, v |-> v])

(***************************************************************************)
(* _parse_dynamic_scores                                                   *)
(***************************************************************************)
One == <<1, 1>>

Ten == <<10, 1>>

RMin(a, b) == IF RLess(b, a) THEN b ELSE a

RMax(a, b) == IF RLess(a, b) THEN b ELSE a

\* clamp without its bounds
clamp_none(val) == val

\* min(10.0, max(1.0, val))
clamp(val) == RMin(Ten, RMax(One, val))

RECURSIVE skip_separators(_, _)
skip_separators(r, j) ==
    IF j <= Len(r) /\ (r[j] = ":" \/ r[j] \in Whitespace)
    THEN skip_separators(r, j + 1)
    ELSE j

\* NAME[:\s]*(number) matches at lexeme i, the name compared by same(_, _)
pattern_at(r, i, metric, same(_, _)) ==
    /\ IsName(r[i])
    /\ same(r[i], metric)
    /\ skip_separators(r, i + 1) <= Len(r)
    /\ IsNumber(r[skip_separators(r, i + 1)])

\* match.group(1) of the leftmost of the matches at the lexemes found, or None
group_1(r, found) ==
    IF found = {} THEN NoneStr ELSE <<r[skip_separators(r, Min(found) + 1)]>>

\* re.search(pattern, response, re.IGNORECASE)
search(r, metric, same(_, _)) ==
    group_1(r, {i \in 1..Len(r) : pattern_at(r, i, metric, same)})

same_ignorecase(x, metric) == name_row(x).up = metric

same_alt(x, metric) == IsName(metric) /\ name_row(x).key = name_row(metric).key

\* `if not match:` the second pattern is searched
or_alt(match, alt_match) == IF match # NoneStr THEN match ELSE alt_match

match_metric(r, metric) ==
    or_alt(search(r, metric, same_ignorecase), search(r, metric, same_alt))

\* `if match: scores[metric] = min(10.0, max(1.0, val))`
record_match(scores, metric, match) ==
    IF match # NoneStr THEN set_item(scores, metric, clamp(number_value(match[1]))) ELSE scores

\* the first loop: scores of the metrics found as METRIC: number, clamped
RECURSIVE matched_scores(_, _, _)
matched_scores(r, metrics, scores) ==
    IF metrics = <<>>
    THEN scores
    ELSE matched_scores(r, Tail(metrics),
                        record_match(scores, Head(metrics), match_metric(r, Head(metrics))))

\* for m in metrics: if m not in scores: scores[m] = avg
RECURSIVE fill_missing(_, _, _)
fill_missing(scores, metrics, avg) ==
    IF metrics = <<>>
    THEN scores
    ELSE fill_missing(
             IF has_key(scores, Head(metrics))
             THEN scores
             ELSE set_item(scores, Head(metrics), avg),
             Tail(metrics), avg)

in_range(n) == RLeq(One, n) /\ RLeq(n, Ten)

float_all(found) == [i \in 1..Len(found) |-> number_value(found[i])]

\* a lexeme that starts and ends with a word character (\w): every lexeme but
\* ":" and the whitespace characters
word_like(x) == x # ":" /\ x \notin Whitespace

\* the number lexemes with a word boundary before them, in order
numbers_at_boundary(r) ==
    SelectSeq([i \in 1..Len(r) |-> IF IsNumber(r[i]) /\ (i = 1 \/ ~word_like(r[i - 1]))
                                   THEN r[i] ELSE ":"],
              IsNumber)

\* re.findall(r"\b(\d+(?:\.\d+)?)\b") filtered to 1 <= n <= 10
bare_numbers(r) == SelectSeq(float_all(numbers_at_boundary(r)), in_range)

\* "Need at least half the metrics": the fallback on any numbers
fill_from_numbers(scores, nums, metrics) ==
    IF 2 * Len(scores) < Len(metrics) /\ nums # <<>>
    THEN fill_missing(scores, metrics, RAvg(nums))
    ELSE scores

\* "Fill missing with average"
fill_from_average(scores, metrics) ==
    IF scores # <<>> THEN fill_missing(scores, metrics, RAvg(values(scores))) ELSE scores

\* _parse_dynamic_scores; None is <<>>
parse_dynamic_scores(r, metrics) ==
    fill_from_average(
        fill_from_numbers(matched_scores(r, metrics, <<>>), bare_numbers(r), metrics),
        metrics)

\* {m: 1.0 for m in self._metrics}
default_scores(metrics) == [i \in 1..Len(metrics) |-> [m |-> metrics[i], v |-> One]]

\* `if scores: return scores` else the default scores
or_default(scores, metrics) == IF scores # <<>> THEN scores ELSE default_scores(metrics)

\* _evaluate_node given the result of its _llm_call (None when the call
\* failed): the scores it returns.
evaluate_node(response, metrics) ==
    or_default(IF Truthy(response) THEN parse_dynamic_scores(response, metrics) ELSE <<>>,
               metrics)

\* _get_total_score
get_total_score(scores, metrics) ==
    IF scores = <<>> \/ metrics = <<>>
    THEN One
    ELSE RAvg([i \in 1..Len(metrics) |-> get(scores, metrics[i], One)])

\* _get_weakest_metric: min(metric_scores, key=metric_scores.get) is the first
\* key, in the dict's order, whose value is minimal.
first_minimal(metric_scores, metrics) ==
    IF metric_scores = <<>>
    THEN (IF metrics # <<>> THEN metrics[1] ELSE "UNKNOWN")
    ELSE metric_scores[CHOOSE i \in 1..Len(metric_scores) :
             /\ \A j \in 1..Len(metric_scores) :
                    RLeq(metric_scores[i].v, metric_scores[j].v)
             /\ \A j \in 1..(i - 1) :
                    RLess(metric_scores[i].v, metric_scores[j].v)].m

get_weakest_metric(scores, metrics) ==
    first_minimal(SelectSeq(scores, LAMBDA it : it.m \in ToSet(metrics)), metrics)

(***************************************************************************)
(* Texts of the model: words joined by single spaces                       *)
(***************************************************************************)
RECURSIVE Join(_)
Join(ws) == IF Len(ws) <= 1 THEN ws ELSE <<Head(ws), " ">> \o Join(Tail(ws))

NineLetterWords ==
    <<"paragraph", "sentences", "structure", "arguments", "evidences", "narrative",
      "revisions", "summaries", "citations", "footnotes">>

\* the first n of them, joined
Doc(n) == Join(SubSeq(NineLetterWords, 1, n))

(***************************************************************************)
(* Tree operations.  ns is the sequence of nodes, a node is its index.     *)
(***************************************************************************)
Zero == <<0, 1>>

\* _create_node that numbers every node n1
create_node_same_id(content, parent, node_counter) ==
    [id |-> 1, content |-> content, parent |-> parent,
     children |-> <<>>, visits |-> 0, value |-> Zero, critique |-> <<>>,
     scores |-> <<>>, iteration_created |-> 0]

\* _create_node, with the counter value it reads
create_node(content, parent, node_counter) ==
    [id |-> node_counter + 1, content |-> content, parent |-> parent,
     children |-> <<>>, visits |-> 0, value |-> Zero, critique |-> <<>>,
     scores |-> <<>>, iteration_created |-> 0]

\* _add_child without the append to the children of the parent
add_child_unlisted(ns, parent, child) == [ns EXCEPT ![child].parent = parent]

\* _add_child
add_child(ns, parent, child) ==
    [ns EXCEPT ![child].parent = parent,
               ![parent].children = Append(@, child)]

\* _fully_expanded with > for >=
fully_expanded_beyond(ns, n, max_children) == Len(ns[n].children) > max_children

\* _fully_expanded as with max_children = 0
always_fully_expanded(ns, n, max_children) == TRUE

\* _fully_expanded
fully_expanded(ns, n, max_children) == Len(ns[n].children) >= max_children

\* _backprop without the walk to the parents
backprop_node_only(ns, n, score) ==
    IF n = 0 THEN ns ELSE [ns EXCEPT ![n].visits = @ + 1, ![n].value = RAdd(@, score)]

\* _backprop
RECURSIVE backprop(_, _, _)
backprop(ns, n, score) ==
    IF n = 0
    THEN ns
    ELSE backprop([ns EXCEPT ![n].visits = @ + 1, ![n].value = RAdd(@, score)],
                  ns[n].parent, score)

\* _get_node_depth
RECURSIVE get_node_depth(_, _)
get_node_depth(ns, n) == IF ns[n].parent = 0 THEN 0 ELSE 1 + get_node_depth(ns, ns[n].parent)

\* _get_max_depth counting the levels of the tree: a lone root gives 1
RECURSIVE get_max_depth_levels(_, _, _)
get_max_depth_levels(ns, n, current_depth) ==
    IF ns[n].children = <<>>
    THEN current_depth + 1
    ELSE Max({get_max_depth_levels(ns, ns[n].children[i], current_depth + 1) :
                 i \in 1..Len(ns[n].children)})

\* _get_max_depth
RECURSIVE get_max_depth(_, _, _)
get_max_depth(ns, n, current_depth) ==
    IF ns[n].children = <<>>
    THEN current_depth
    ELSE Max({get_max_depth(ns, ns[n].children[i], current_depth + 1) :
                 i \in 1..Len(ns[n].children)})

\* _count_nodes
RECURSIVE count_nodes(_, _)
count_nodes(ns, n) ==
    IF ns[n].children = <<>>
    THEN 1
    ELSE 1 + RSum([i \in 1..Len(ns[n].children) |->
                      <<count_nodes(ns, ns[n].children[i]), 1>>])[1]

\* the maximum taken as if every child had a finite UCT value
any_child(ch, unvisited) == ToSet(ch)

\* max(node["children"], key=self._uct_value): an unvisited child has UCT
\* +infinity, and max returns the first child of maximal key, so the first
\* unvisited child wins.  Among visited children the key depends on the real
\* functions sqrt and log and on the weights exploration_weight and
\* depth_bonus: every child is a possible maximum.
first_of(ch, unvisited) == IF unvisited # {} THEN {ch[Min(unvisited)]} ELSE ToSet(ch)

\* _avg_score of a visited node: node["value"] / node["visits"]
avg_score(ns, c) == RDivInt(ns[c].value, ns[c].visits)

\* _uct_value(c) < _uct_value(d) for two visited children of one parent with
\* the same number of visits: they have the same exploration term and the same
\* depth bonus, so the keys compare as value / visits (the differences of the
\* averages of the model are far above the rounding of the sums).
uct_below(ns, c, d) ==
    /\ ns[c].visits > 0
    /\ ns[c].visits = ns[d].visits
    /\ RLess(avg_score(ns, c), avg_score(ns, d))

\* the same key for two such children: max keeps the earlier one
uct_tied(ns, c, d) ==
    /\ ns[c].visits > 0
    /\ ns[c].visits = ns[d].visits
    /\ avg_score(ns, c) = avg_score(ns, d)

\* the children max cannot return because another child is above them, or
\* tied with them and earlier in the list, are left out
uct_maxima(ns, ch) ==
    SelectSeq(ch, LAMBDA c :
        ~\E j \in 1..Len(ch) :
            \/ uct_below(ns, c, ch[j])
            \/ uct_tied(ns, c, ch[j]) /\ j < Min({i \in 1..Len(ch) : ch[i] = c}))

first_unvisited_of(ns, ch) == first_of(ch, {i \in 1..Len(ch) : ns[ch[i]].visits = 0})

uct_argmax(ns, n) == first_unvisited_of(ns, uct_maxima(ns, ns[n].children))

\* _select that descends to any child, whatever its UCT value
RECURSIVE select_any_child(_, _, _)
select_any_child(ns, n, max_children) ==
    IF ns[n].children = <<>>
    THEN {n}
    ELSE IF ~fully_expanded(ns, n, max_children) /\ ns[n].visits > 0
    THEN {n}
    ELSE UNION {select_any_child(ns, c, max_children) : c \in ToSet(ns[n].children)}

\* _select: the nodes the walk from n can return
RECURSIVE select(_, _, _)
select(ns, n, max_children) ==
    IF ns[n].children = <<>>
    THEN {n}
    ELSE IF ~fully_expanded(ns, n, max_children) /\ ns[n].visits > 0
    THEN {n}
    ELSE UNION {select(ns, c, max_children) : c \in uct_argmax(ns, n)}

(***************************************************************************)
(* _generate_metrics: parsing of the response text (lexemes).              *)
(***************************************************************************)
DefaultMetrics == <<"COMPLETENESS", "CLARITY", "DEPTH", "ACCURACY", "ENGAGEMENT">>

DefaultMetricsDesc ==
    << [m |-> "COMPLETENESS", v |-> <<"Covers all aspects of the goal">>],
       [m |-> "CLARITY", v |-> <<"Easy to understand and well-structured">>],
       [m |-> "DEPTH", v |-> <<"Sufficient detail and examples">>],
       [m |-> "ACCURACY", v |-> <<"Correct and well-reasoned">>],
       [m |-> "ENGAGEMENT", v |-> <<"Interesting and appropriate tone">>] >>

\* s.split(sep) on lexemes
RECURSIVE split_on(_, _, _, _)
split_on(s, sep, cur, out) ==
    IF s = <<>>
    THEN Append(out, cur)
    ELSE IF Head(s) = sep
         THEN split_on(Tail(s), sep, <<>>, Append(out, cur))
         ELSE split_on(Tail(s), sep, Append(cur, Head(s)), out)

\* [l.strip() for l in result.strip().split("\n") if l.strip() and ":" in l]
keep_line(l) == strip(l) # <<>> /\ ":" \in ToSet(l)

strip_all(kept) == [i \in 1..Len(kept) |-> strip(kept[i])]

metric_lines(result) ==
    strip_all(SelectSeq(split_on(strip(result), "\n", <<>>, <<>>), keep_line))

\* line.split(":", 1)
split_at(line, i) == <<SubSeq(line, 1, i - 1), SubSeq(line, i + 1, Len(line))>>

split_colon(line) == split_at(line, Min({k \in 1..Len(line) : line[k] = ":"}))

\* parts[0].strip().upper().replace(" ", "_") of a part that is one lexeme (or
\* empty); names written as several lexemes are outside the modelled inputs.
upper_underscored(p) ==
    IF p = <<>> THEN ""
    ELSE IF IsName(p[1]) THEN name_row(p[1]).norm
    ELSE p[1]

normalise_name(part) == upper_underscored(strip(part))

RECURSIVE parse_metric_lines(_, _, _)
parse_metric_lines(lines, ms, desc) ==
    IF lines = <<>>
    THEN [metrics |-> ms, metrics_desc |-> desc]
    ELSE parse_metric_lines(
             Tail(lines),
             Append(ms, normalise_name(split_colon(Head(lines))[1])),
             set_item(desc, normalise_name(split_colon(Head(lines))[1]),
                      strip(split_colon(Head(lines))[2])))

\* lines[:5] without the bound
all_lines(lines) == lines

\* _generate_metrics given the result of its _llm_call: ok is the returned
\* bool, metrics and metrics_desc the fields after it (cur when untouched).
\* lines[:5]
first_five(lines) == SubSeq(lines, 1, IF Len(lines) < 5 THEN Len(lines) ELSE 5)

\* return len(self._metrics) >= 3
enough(p) == [ok |-> Len(p.metrics) >= 3, metrics |-> p.metrics, metrics_desc |-> p.metrics_desc]

metrics_from(lines) ==
    IF Len(lines) < 3
    THEN [ok |-> TRUE, metrics |-> DefaultMetrics, metrics_desc |-> DefaultMetricsDesc]
    ELSE enough(parse_metric_lines(first_five(lines), <<>>, <<>>))

\* _generate_metrics falling back to the default metrics when its call fails
generate_metrics_or_default(result, cur_metrics, cur_desc) ==
    IF ~Truthy(result)
    THEN [ok |-> TRUE, metrics |-> DefaultMetrics, metrics_desc |-> DefaultMetricsDesc]
    ELSE metrics_from(metric_lines(result))

generate_metrics(result, cur_metrics, cur_desc) ==
    IF ~Truthy(result)
    THEN [ok |-> FALSE, metrics |-> cur_metrics, metrics_desc |-> cur_desc]
    ELSE metrics_from(metric_lines(result))

\* _infer_goal given the result of its _llm_call
infer_goal(result) ==
    IF Truthy(result) /\ len(strip(result)) > 10 THEN strip(result) ELSE NoneStr

DefaultGoal ==
    <<"Make this content clearer, more comprehensive, and more effective for its intended purpose">>

(***************************************************************************)
(* State                                                                   *)
(***************************************************************************)
VARIABLES
    env,                 \* which behaviours of the service and of the caller are drawn
    valves,              \* self.valves
    emitter,             \* self._emitter: "None", or how the callback behaves
    last_error,          \* self._last_error
    metrics,             \* self._metrics
    metrics_desc,        \* self._metrics_desc
    goal,                \* self._goal
    node_counter,        \* self._node_counter
    best_score_history,  \* self._best_score_history
    pc,                  \* where improve_content stands
    text,                \* text_to_improve
    goal_arg,            \* improvement_goal
    nodes,               \* the node objects created, in creation order
    root,                \* root of _run_mcts (0 before it exists)
    best_score, best_node, no_improvement, total_api_calls, iteration,
    leaf,                \* the selected node, then the node evaluated
    weak,                \* the weakest metric handed to _expand
    attempt,             \* `attempt` of _expand
    tasks,               \* the _create_child coroutines of the attempt
    call_attempt,        \* `attempt` of the _llm_call in progress
    requests,            \* requests issued by the logical call in progress
    result,              \* what improve_content returned
    call_outcome,        \* what the last request left of its _llm_call
    llm,                 \* one _llm_call on its own
    ev,                  \* one _evaluate_node on its own
    cand,                \* one _create_child on its own
    gm                   \* one _generate_metrics on its own

run_vars ==
    <<valves, emitter, last_error, metrics, metrics_desc, goal, node_counter,
      best_score_history, pc, text, goal_arg, nodes, root, best_score, best_node,
      no_improvement, total_api_calls, iteration, leaf, weak, attempt, tasks,
      call_attempt, requests, result, call_outcome>>

vars == <<env, run_vars, llm, ev, cand, gm>>

Idle == [on |-> FALSE]

(***************************************************************************)
(* Bounds of the model and the inputs it draws                             *)
(***************************************************************************)
MaxSimulations == 2

MaxChildren == 2

MaxThoughts == 2

MaxRetries == 2

Threshold(tenths) == Rat(tenths, 10)

\* Valves: the fields the control flow reads.  Two stopping policies: the
\* default threshold 9.0 with patience 1 and min_depth 1, and the threshold
\* 1.0 (met by every content) with min_depth 3.
Policies ==
    {[early_stop_patience |-> 1, early_stop_threshold |-> Threshold(90), min_depth |-> 1],
     [early_stop_patience |-> 3, early_stop_threshold |-> Threshold(10), min_depth |-> 3]}

MakeValves(key, sims, children, thoughts, retries, show, policy) ==
    [api_key |-> key, max_simulations |-> sims, max_children |-> children,
     num_thoughts |-> thoughts, max_retries |-> retries, show_intermediate |-> show,
     early_stop_patience |-> policy.early_stop_patience,
     early_stop_threshold |-> policy.early_stop_threshold,
     min_depth |-> policy.min_depth]

\* env = "search": the setup requests succeed and the search is explored
SearchValves ==
    {MakeValves(<<"k">>, MaxSimulations, c, t, MaxRetries, FALSE, p) :
        c \in 1..MaxChildren, t \in 1..MaxThoughts, p \in Policies}

\* env = "any": every modelled behaviour of the service and of the callback,
\* with a search of one iteration and one candidate
AnyValves ==
    {MakeValves(k, 1, 1, 1, r, TRUE, p) :
        k \in {<<>>, <<"k">>}, r \in 1..MaxRetries, p \in Policies}

RootText == Doc(8)

GoalText == <<"m", "o", "r", "e", " ", "d", "e", "t", "a", "i", "l">>

Texts == IF env = "any" THEN {<<>>, <<" ", "\n">>, <<" ">> \o RootText \o <<"\n">>}
         ELSE {RootText}

OtherGoal == <<"s", "h", "o", "r", "t", "e", "r", " ", "w", "o", "r", "d", "s">>

\* env = "first run", "second run": two calls of improve_content on the same
\* instance, the first with a goal, the second without
Goals == IF env = "any" THEN {<<>>, <<" ">> \o GoalText}
         ELSE IF env = "first run" THEN {OtherGoal}
         ELSE IF env \in {"second run", "select"} THEN {<<>>}
         ELSE {GoalText}

Emitters == IF env = "any" THEN {"None", "failing"} ELSE {"None"}

Failures == {Http(503, "", <<>>), Http(404, "", <<>>)}

SearchFailures == IF env = "any" THEN Failures ELSE {}

TestApiResponses ==
    IF env = "any"
    THEN {Ok(<<"O", "K">>), Ok(<<" ">>), Timeout, Http(200, "malformed", <<>>),
          Http(200, "unknown", <<>>)} \cup Failures
    ELSE IF env = "first run" THEN {Ok(<<"O", "K">>), Http(503, "", <<>>)}
    ELSE {Ok(<<"O", "K">>)}

GoalResponses ==
    IF env = "select" THEN {Ok(GoalText)}
    ELSE {Ok(GoalText), Ok(SubSeq(GoalText, 1, 10))} \cup Failures

MetricLine(name) == <<name, ":", "what it measures", "\n">>

ThreeMetrics == MetricLine("tone") \o MetricLine("DEPTH") \o MetricLine("Clarity")

MetricsResponses ==
    IF env = "any"
    THEN {Ok(ThreeMetrics), Ok(<<"no metrics, sorry">>)} \cup Failures
    ELSE IF env = "second run" THEN {Ok(ThreeMetrics), Ok(<<"no metrics, sorry">>), Http(404, "", <<>>)}
    ELSE {Ok(ThreeMetrics)}

ScoreLine(name, n) == <<name, ":", " ", n, "\n">>

EvalTexts ==
    {ScoreLine("TONE", "9") \o ScoreLine("DEPTH", "9") \o ScoreLine("CLARITY", "9"),
     ScoreLine("TONE", "5") \o ScoreLine("DEPTH", "7.5") \o ScoreLine("CLARITY", "4"),
     <<"n/a">>}

\* the texts with scores
ScoredTexts == {x \in EvalTexts : Len(x) > 1}

EvalResponses ==
    IF env \in {"first run", "second run", "select"} THEN {Ok(x) : x \in ScoredTexts}
    ELSE {Ok(x) : x \in EvalTexts} \cup SearchFailures

GoodCritique == <<"a", "d", "d", " ", "d", "e", "t", "a", "i", "l">>

CritiqueResponses ==
    IF env = "select" THEN {Ok(GoodCritique)}
    ELSE {Ok(<<" ">> \o GoodCritique), Ok(SubSeq(GoodCritique, 1, 9))} \cup SearchFailures

\* Rewrites: two more words (99 characters); the words of RootText, the first
\* capitalised; 53 characters; 29 characters; two words fewer (59 characters)
RewriteTexts ==
    {Doc(10) \o <<"\n">>, <<"Paragraph">> \o Tail(Doc(8)), Doc(5) \o <<" ", "the">>, Doc(3),
     Doc(6)}

RewriteResponses ==
    IF env \in {"first run", "second run"} THEN {Ok(Doc(10) \o <<"\n">>), Ok(Doc(3))}
    ELSE IF env = "select" THEN {Ok(Doc(10)), Ok(Doc(8))}
    ELSE {Ok(x) : x \in RewriteTexts} \cup SearchFailures

(***************************************************************************)
(* _create_child: the checks on a critique and on a rewritten content      *)
(***************************************************************************)
critique_ok(critique) == Truthy(critique) /\ ~(len(strip(critique)) < 10)

\* too_short_for_parent without the comparison
never_too_short(new_content, parent_content) == FALSE

\* len(new_content) < len(parent["content"]) * 0.7
too_short_for_parent(new_content, parent_content) ==
    10 * len(new_content) < 7 * len(parent_content)

\* near_duplicate with the threshold 0.99
near_duplicate_above_99(parent_content, new_content) ==
    RLess(Rat(99, 100), similarity(parent_content, new_content))

\* self._similarity(parent["content"], new_content) > 0.95
near_duplicate(parent_content, new_content) ==
    RLess(Rat(95, 100), similarity(parent_content, new_content))

\* the checks on new_content after new_content.strip()
stripped_ok(new_content, parent_content) ==
    /\ ~(len(new_content) < 50)
    /\ ~too_short_for_parent(new_content, parent_content)
    /\ ~near_duplicate(parent_content, new_content)

content_ok(new_content, parent_content) ==
    Truthy(new_content) /\ stripped_ok(strip(new_content), parent_content)

(***************************************************************************)
(* What improve_content returns: the lexemes the string starts with, and   *)
(* the values formatted into it.                                           *)
(***************************************************************************)
WarningSign == "(warning sign)"

NoReport == [on |-> FALSE]

Returned(head, detail, report) == [head |-> head, detail |-> detail, report |-> report]

NoResult == Returned(<<>>, <<>>, NoReport)

ErrorNoKey == Returned(<<WarningSign, "**Error:**", "API Key required in Valves settings.">>, <<>>, NoReport)

ErrorNoText == Returned(<<WarningSign, "**Error:**", "No text provided to improve.">>, <<>>, NoReport)

ErrorApi(err) == Returned(<<WarningSign, "**API Error:**">>, err, NoReport)

ErrorMetrics(err) ==
    Returned(<<WarningSign, "**Error:**", "Could not generate evaluation metrics.", "Details:">>,
             err, NoReport)

ErrorSearch(err) == Returned(<<WarningSign, "**Error:**", "(exception)", "Last error:">>, err, NoReport)

\* _build_stats
build_stats(ns, r, score, api_calls) ==
    [nodes |-> count_nodes(ns, r), best_score |-> score, total_api_calls |-> api_calls]

\* _format_final_output
format_final_output(ns, best, r, stats, ms, g) ==
    Returned(<<"---", "## Optimization Complete!">>, <<>>,
             [on |-> TRUE, goal |-> g, scores |-> ns[best].scores,
              overall |-> get_total_score(ns[best].scores, ms),
              root_score |-> get_total_score(ns[r].scores, ms),
              stats |-> stats, content |-> ns[best].content, best_id |-> ns[best].id])

\* The emit of an action that raises: 0 when none does.  Only a callback can
\* raise: _emit_* do nothing when self._emitter is None.
EmitRaises(em, n) == IF em = "failing" THEN 0..n ELSE {0}

(***************************************************************************)
(* improve_content, up to the search                                       *)
(***************************************************************************)
search_vars ==
    <<nodes, root, best_score, best_node, no_improvement, total_api_calls, iteration,
      leaf, weak, attempt, tasks>>

unit_vars == <<llm, ev, cand, gm>>

\* Tools.__init__ and the arguments of no call yet
InitRun(v) ==
    /\ valves = v
    /\ emitter = "None"
    /\ last_error = NoneStr
    /\ metrics = NoneStr
    /\ metrics_desc = <<>>
    /\ goal = NoneStr
    /\ node_counter = 0
    /\ best_score_history = <<>>
    /\ pc = "idle"
    /\ text = <<>>
    /\ goal_arg = <<>>
    /\ nodes = <<>>
    /\ root = 0
    /\ best_score = Zero
    /\ best_node = 0
    /\ no_improvement = 0
    /\ total_api_calls = 0
    /\ iteration = 0
    /\ leaf = 0
    /\ weak = ""
    /\ attempt = 0
    /\ tasks = <<>>
    /\ call_attempt = 0
    /\ requests = 0
    /\ result = NoResult
    /\ call_outcome = "no call"

\* an exception leaves improve_content
Raise == pc' = "raised" /\ result' = NoResult

Return(r) == pc' = "done" /\ result' = r

Goto(label) == pc' = label /\ result' = result

\* improve_content with the check of the text made before the check of the key
ImproveContent_text_first(t, g, em) ==
    /\ pc = "idle"
    /\ emitter' = em
    /\ last_error' = NoneStr
    /\ metrics' = NoneStr
    /\ metrics_desc' = <<>>
    /\ node_counter' = 0
    /\ goal_arg' = g
    /\ IF t = <<>> \/ strip(t) = <<>>
       THEN Return(ErrorNoText) /\ text' = t
       ELSE IF valves.api_key = <<>>
       THEN Return(ErrorNoKey) /\ text' = t
       ELSE /\ text' = strip(t)
            /\ \E k \in EmitRaises(em, 1) : IF k # 0 THEN Raise ELSE Goto("test_api")
    /\ UNCHANGED <<env, valves, goal, best_score_history, search_vars, call_attempt, requests,
                   call_outcome, unit_vars>>

\* improve_content(text_to_improve, improvement_goal, __event_emitter__), to
\* its first request
ImproveContent(t, g, em) ==
    /\ pc = "idle"
    /\ emitter' = em
    /\ last_error' = NoneStr
    /\ metrics' = NoneStr
    /\ metrics_desc' = <<>>
    /\ node_counter' = 0
    /\ goal_arg' = g
    /\ IF valves.api_key = <<>>
       THEN Return(ErrorNoKey) /\ text' = t
       ELSE IF t = <<>> \/ strip(t) = <<>>
       THEN Return(ErrorNoText) /\ text' = t
       ELSE /\ text' = strip(t)
            /\ \E k \in EmitRaises(em, 1) : IF k # 0 THEN Raise ELSE Goto("test_api")
    /\ UNCHANGED <<env, valves, goal, best_score_history, search_vars, call_attempt, requests,
                   call_outcome, unit_vars>>

\* `result = await self._llm_call(...)` after one turn c of the call: the
\* call goes on with another request, or has returned a text or None
outcome(c) == IF ~c.done THEN "retry" ELSE IF Truthy(c.result) THEN "text" ELSE "None"

\* `if improvement_goal and improvement_goal.strip()`
goal_provided == Truthy(goal_arg) /\ strip(goal_arg) # <<>>

\* after _test_api returned t, with the goal inferred whether one was given
\* or not
TestApiReturned_goal_ignored(t) ==
    /\ last_error' = t.last_error
    /\ IF ~t.ok
       THEN Return(ErrorApi(t.last_error)) /\ requests' = 1 /\ UNCHANGED goal
       ELSE /\ requests' = 0
            /\ \E k \in EmitRaises(emitter, 1) :
                   /\ goal' = goal
                   /\ IF k # 0 THEN Raise ELSE Goto("infer_goal")

\* after _test_api returned t
TestApiReturned(t) ==
    /\ last_error' = t.last_error
    /\ IF ~t.ok
       THEN Return(ErrorApi(t.last_error)) /\ requests' = 1 /\ UNCHANGED goal
       ELSE /\ requests' = 0
            /\ IF goal_provided
               THEN \E k \in EmitRaises(emitter, 3) :
                        /\ goal' = IF k = 1 THEN goal ELSE strip(goal_arg)
                        /\ IF k # 0 THEN Raise ELSE Goto("generate_metrics")
               ELSE \E k \in EmitRaises(emitter, 1) :
                        /\ goal' = goal
                        /\ IF k # 0 THEN Raise ELSE Goto("infer_goal")

\* the answer to the request of _test_api, to the next request
TestApi(resp) ==
    /\ pc = "test_api"
    /\ TestApiReturned(test_api(resp, last_error))
    /\ call_outcome' = IF test_api(resp, last_error).ok THEN "text" ELSE "None"
    /\ UNCHANGED <<env, valves, emitter, metrics, metrics_desc, node_counter,
                   best_score_history, text, goal_arg, search_vars, call_attempt,
                   unit_vars>>

\* the goal left as _infer_goal returned it
no_default_goal(g) == g

\* `if not self._goal: self._goal = "Make this content clearer, ..."`
or_default_goal(g) == IF g = NoneStr THEN DefaultGoal ELSE g

\* after one turn c of the _llm_call of _infer_goal
InferGoalAnswered(c) ==
    /\ last_error' = c.last_error
    /\ IF ~c.done
       THEN /\ call_attempt' = c.attempt
            /\ requests' = requests + 1
            /\ UNCHANGED <<pc, goal, result>>
       ELSE /\ call_attempt' = 0
            /\ requests' = 0
            /\ goal' = or_default_goal(infer_goal(c.result))
            /\ \E k \in EmitRaises(emitter, 2) :
                   IF k # 0 THEN Raise ELSE Goto("generate_metrics")

\* the answer to a request of _infer_goal's _llm_call
InferGoal(resp) ==
    /\ pc = "infer_goal"
    /\ InferGoalAnswered(llm_call(call_attempt, resp, last_error, valves.max_retries))
    /\ call_outcome' = outcome(llm_call(call_attempt, resp, last_error, valves.max_retries))
    /\ UNCHANGED <<env, valves, emitter, metrics, metrics_desc, node_counter,
                   best_score_history, text, goal_arg, search_vars, unit_vars>>

\* after _generate_metrics returned g, with the metrics generated once more
\* instead of the search started
MetricsGenerated_again(g, err) ==
    /\ call_attempt' = 0
    /\ metrics' = g.metrics
    /\ metrics_desc' = g.metrics_desc
    /\ IF ~g.ok
       THEN /\ Return(ErrorMetrics(err))
            /\ requests' = requests + 1
            /\ UNCHANGED <<node_counter, best_score_history, search_vars>>
       ELSE /\ requests' = 0
            /\ Goto("generate_metrics")
            /\ UNCHANGED <<node_counter, best_score_history, search_vars>>

\* after _generate_metrics returned g: the emits, the root, and _run_mcts to
\* its first request
MetricsGenerated(g, err) ==
    /\ call_attempt' = 0
    /\ metrics' = g.metrics
    /\ metrics_desc' = g.metrics_desc
    /\ IF ~g.ok
       THEN /\ Return(ErrorMetrics(err))
            /\ requests' = requests + 1
            /\ UNCHANGED <<node_counter, best_score_history, search_vars>>
       ELSE \E k \in EmitRaises(emitter, 3) :
              /\ requests' = 0
              /\ IF k \in {1, 2}
                 THEN /\ Raise
                      /\ UNCHANGED <<node_counter, best_score_history, search_vars>>
                 ELSE /\ nodes' = <<create_node(text, 0, node_counter)>>
                      /\ node_counter' = node_counter + 1
                      /\ root' = 1
                      /\ best_score' = Zero
                      /\ best_node' = 1
                      /\ no_improvement' = 0
                      /\ total_api_calls' = 0
                      /\ iteration' = 0
                      /\ best_score_history' = <<>>
                      /\ UNCHANGED <<leaf, weak, attempt, tasks>>
                      /\ IF k = 3 THEN Return(ErrorSearch(err)) ELSE Goto("evaluate_root")

\* after one turn c of the _llm_call of _generate_metrics
GenerateMetricsAnswered(c) ==
    /\ last_error' = c.last_error
    /\ IF ~c.done
       THEN /\ call_attempt' = c.attempt
            /\ requests' = requests + 1
            /\ UNCHANGED <<pc, result, metrics, metrics_desc, node_counter,
                           best_score_history, search_vars>>
       ELSE MetricsGenerated(generate_metrics(c.result, metrics, metrics_desc), c.last_error)

\* the answer to a request of _generate_metrics' _llm_call
GenerateMetrics(resp) ==
    /\ pc = "generate_metrics"
    /\ GenerateMetricsAnswered(llm_call(call_attempt, resp, last_error, valves.max_retries))
    /\ call_outcome' = outcome(llm_call(call_attempt, resp, last_error, valves.max_retries))
    /\ UNCHANGED <<env, valves, emitter, goal, text, goal_arg, unit_vars>>

(***************************************************************************)
(* _run_mcts                                                               *)
(***************************************************************************)
NewTask == [stage |-> "critique", attempt |-> 0, critique |-> <<>>, child |-> 0, api_calls |-> 0]

NewTasks == [i \in 1..valves.num_thoughts |-> NewTask]

\* What the callback does to the emits of one step: none raises ("ok"), one
\* inside the try of improve_content raises ("caught"), or the last status
\* emit of improve_content, after the try, raises ("uncaught").
EmitOutcomes == IF emitter = "failing" THEN {"ok", "caught", "uncaught"} ELSE {"ok"}

\* the head of the loop with a node expanded whether it has been visited or not
LoopHead_expand_unvisited(ns, it) ==
    /\ iteration' = it
    /\ \E lf \in select(ns, root, valves.max_children) :
           /\ leaf' = lf
           /\ IF ~fully_expanded(ns, lf, valves.max_children)
              THEN /\ weak' = get_weakest_metric(ns[lf].scores, metrics)
                   /\ attempt' = 0
                   /\ tasks' = NewTasks
                   /\ Goto("expand")
              ELSE /\ UNCHANGED <<weak, attempt, tasks>>
                   /\ Goto("evaluate_leaf")

\* The head of the loop for iteration it: _select, then either the tasks of
\* _expand's first attempt or the evaluation of the selected node.
LoopHead(ns, it) ==
    /\ iteration' = it
    /\ \E lf \in select(ns, root, valves.max_children) :
           /\ leaf' = lf
           /\ IF ns[lf].visits > 0 /\ ~fully_expanded(ns, lf, valves.max_children)
              THEN /\ weak' = get_weakest_metric(ns[lf].scores, metrics)
                   /\ attempt' = 0
                   /\ tasks' = NewTasks
                   /\ Goto("expand")
              ELSE /\ UNCHANGED <<weak, attempt, tasks>>
                   /\ Goto("evaluate_leaf")

\* the early-stop checks without the conditions on the depth
early_stop_any_depth(ns, bs, ni) ==
    \/ RLeq(valves.early_stop_threshold, bs)
    \/ ni >= valves.early_stop_patience

\* The early-stop checks after an iteration
early_stop(ns, bs, ni) ==
    LET current_depth == get_max_depth(ns, 1, 0)
    IN  \/ RLeq(valves.early_stop_threshold, bs) /\ current_depth >= valves.min_depth
        \/ ni >= valves.early_stop_patience /\ current_depth >= valves.min_depth

\* From the end of an evaluation to the next request or to the return of
\* improve_content.  stop: the search ends here; it: the iteration completed.
AfterEvaluation(ns, bs, bn, calls, it, lf, stop, err) ==
    \E e \in EmitOutcomes :
        IF e = "caught"
        THEN /\ Return(ErrorSearch(err))
             /\ iteration' = it
             /\ leaf' = lf
             /\ UNCHANGED <<weak, attempt, tasks>>
        ELSE IF stop
        THEN /\ IF e = "uncaught"
                THEN Raise
                ELSE Return(format_final_output(ns, bn, 1, build_stats(ns, 1, bs, calls),
                                                metrics, goal))
             /\ iteration' = it
             /\ leaf' = lf
             /\ UNCHANGED <<weak, attempt, tasks>>
        ELSE e = "ok" /\ LoopHead(ns, it + 1)

frame_eval == <<env, valves, emitter, metrics, metrics_desc, goal, node_counter, text, goal_arg,
                unit_vars>>

Retry(c) ==
    /\ call_attempt' = c.attempt
    /\ requests' = requests + 1
    /\ UNCHANGED <<pc, result, best_score_history, search_vars>>

\* the scores stored on n without self._backprop(n, score)
scored_not_backpropagated(n, scores, score) ==
    [scores |-> scores, score |-> score, nodes |-> [nodes EXCEPT ![n].scores = scores]]

\* scores, calls = await self._evaluate_node(n, ...); n["scores"] = scores;
\* score = self._get_total_score(scores); self._backprop(n, score)
backpropagated(n, scores, score) ==
    [scores |-> scores, score |-> score,
     nodes |-> backprop([nodes EXCEPT ![n].scores = scores], n, score)]

scored(n, scores) == backpropagated(n, scores, get_total_score(scores, metrics))

evaluation(n, response) == scored(n, evaluate_node(response, metrics))

\* the root is evaluated: the rest of lines 514-528
RootEvaluated(e, err) ==
    /\ call_attempt' = 0
    /\ requests' = 0
    /\ nodes' = e.nodes
    /\ root' = root
    /\ best_score' = e.score
    /\ best_node' = best_node
    /\ no_improvement' = no_improvement
    /\ total_api_calls' = total_api_calls + 1
    /\ best_score_history' =
           Append(best_score_history,
                  [iteration |-> 0, score |-> e.score, node_id |-> e.nodes[root].id])
    /\ AfterEvaluation(e.nodes, e.score, best_node, total_api_calls + 1, 0, leaf,
                       RLeq(valves.early_stop_threshold, e.score), err)

RootAnswered(c) ==
    /\ last_error' = c.last_error
    /\ IF ~c.done THEN Retry(c) ELSE RootEvaluated(evaluation(root, c.result), c.last_error)

\* the answer to a request of the root's evaluation
EvaluateRoot(resp) ==
    /\ pc = "evaluate_root"
    /\ RootAnswered(llm_call(call_attempt, resp, last_error, valves.max_retries))
    /\ call_outcome' = outcome(llm_call(call_attempt, resp, last_error, valves.max_retries))
    /\ UNCHANGED frame_eval

\* the rewrite passed the checks: the child is created
ChildCreated(t, task, new_content) ==
    /\ nodes' = Append(nodes,
           [create_node(new_content, leaf, node_counter)
               EXCEPT !.critique = strip(task.critique), !.iteration_created = iteration])
    /\ node_counter' = node_counter + 1
    /\ tasks' = [tasks EXCEPT ![t] =
           [task EXCEPT !.stage = "done", !.child = Len(nodes) + 1, !.api_calls = 2]]

\* after one turn c of the _llm_call a _create_child coroutine awaits
TaskAnswered(t, task, c) ==
    /\ last_error' = c.last_error
    /\ IF ~c.done
       THEN /\ tasks' = [tasks EXCEPT ![t].attempt = c.attempt]
            /\ UNCHANGED <<nodes, node_counter>>
       ELSE IF task.stage = "critique"
       THEN /\ tasks' = [tasks EXCEPT ![t] =
                   IF critique_ok(c.result)
                   THEN [task EXCEPT !.stage = "rewrite", !.attempt = 0,
                                     !.critique = c.result, !.api_calls = 1]
                   ELSE [task EXCEPT !.stage = "done", !.api_calls = 1]]
            /\ UNCHANGED <<nodes, node_counter>>
       ELSE IF content_ok(c.result, nodes[leaf].content)
       THEN ChildCreated(t, task, strip(c.result))
       ELSE /\ tasks' = [tasks EXCEPT ![t] = [task EXCEPT !.stage = "done", !.api_calls = 2]]
            /\ UNCHANGED <<nodes, node_counter>>

\* one request of one _create_child task is answered
TaskRequest(t, resp) ==
    /\ pc = "expand"
    /\ tasks[t].stage \in {"critique", "rewrite"}
    /\ TaskAnswered(t, tasks[t],
                    llm_call(tasks[t].attempt, resp, last_error, valves.max_retries))
    /\ call_outcome' = outcome(llm_call(tasks[t].attempt, resp, last_error, valves.max_retries))
    /\ UNCHANGED <<env, valves, emitter, metrics, metrics_desc, goal, best_score_history, pc,
                   text, goal_arg, root, best_score, best_node, no_improvement,
                   total_api_calls, iteration, leaf, weak, attempt, call_attempt,
                   requests, result, unit_vars>>

\* only the first valid child attached
add_first_child(ns, parent, valid) ==
    IF valid = <<>> THEN ns ELSE add_child(ns, parent, Head(valid))

RECURSIVE add_children(_, _, _)
add_children(ns, parent, valid) ==
    IF valid = <<>> THEN ns
    ELSE add_children(add_child(ns, parent, Head(valid)), parent, Tail(valid))

RECURSIVE sum_calls(_)
sum_calls(ts) == IF ts = <<>> THEN 0 ELSE Head(ts).api_calls + sum_calls(Tail(ts))

\* the nodes among the results of the tasks, last task first
RECURSIVE valid_children_reversed(_)
valid_children_reversed(ts) ==
    IF ts = <<>> THEN <<>>
    ELSE valid_children_reversed(Tail(ts))
             \o (IF Head(ts).child # 0 THEN <<Head(ts).child>> ELSE <<>>)

\* the nodes among the results of the tasks, in task order
valid_children(ts) == SelectSeq([i \in 1..Len(ts) |-> ts[i].child], LAMBDA r : r # 0)

\* the rest of _expand with `for attempt in range(1)`: no second attempt
Gathered_one_attempt(valid) ==
    IF valid # <<>>
    THEN /\ nodes' = add_children(nodes, leaf, valid)
         /\ \E choice \in ToSet(valid) : leaf' = choice
         /\ tasks' = <<>>
         /\ attempt' = attempt
         /\ Goto("evaluate_new")
    ELSE /\ tasks' = <<>>
         /\ Goto("evaluate_failed")
         /\ UNCHANGED <<nodes, leaf, attempt>>

\* the rest of the attempt of _expand, with the valid children gathered
Gathered(valid) ==
    IF valid # <<>>
    THEN /\ nodes' = add_children(nodes, leaf, valid)
         /\ \E choice \in ToSet(valid) : leaf' = choice
         /\ tasks' = <<>>
         /\ attempt' = attempt
         /\ Goto("evaluate_new")
    ELSE IF attempt = 0
    THEN /\ attempt' = 1
         /\ tasks' = NewTasks
         /\ UNCHANGED <<nodes, leaf, pc, result>>
    ELSE /\ tasks' = <<>>
         /\ Goto("evaluate_failed")
         /\ UNCHANGED <<nodes, leaf, attempt>>

\* asyncio.gather has returned: the rest of the attempt of _expand
ExpandGather ==
    /\ pc = "expand"
    /\ \A t \in 1..Len(tasks) : tasks[t].stage = "done"
    /\ total_api_calls' = total_api_calls + sum_calls(tasks)
    /\ Gathered(valid_children(tasks))
    /\ UNCHANGED <<env, valves, emitter, last_error, metrics, metrics_desc, goal, node_counter,
                   best_score_history, text, goal_arg, root, best_score, best_node,
                   no_improvement, iteration, weak, call_attempt, requests, call_outcome,
                   unit_vars>>

\* "Track best" (lines 563-569) and the rest of the iteration
TrackBest(e, improved, bs, bn, ni, err) ==
    /\ best_score' = bs
    /\ best_node' = bn
    /\ no_improvement' = ni
    /\ best_score_history' =
           IF improved
           THEN Append(best_score_history,
                       [iteration |-> iteration, score |-> e.score,
                        node_id |-> e.nodes[leaf].id])
           ELSE best_score_history
    /\ AfterEvaluation(e.nodes, bs, bn, total_api_calls + 1, iteration, leaf,
                       early_stop(e.nodes, bs, ni) \/ iteration = valves.max_simulations,
                       err)

\* "Track best" with every evaluated child taken as the new best
Compared_always_best(e, improved, err) == TrackBest(e, TRUE, e.score, leaf, 0, err)

\* `if score > best_score:` ... `else: no_improvement += 1`
Compared(e, improved, err) ==
    TrackBest(e, improved,
              IF improved THEN e.score ELSE best_score,
              IF improved THEN leaf ELSE best_node,
              IF improved THEN 0 ELSE no_improvement + 1,
              err)

\* the new child is evaluated: the rest of lines 551-569
NewEvaluated(e, err) ==
    /\ call_attempt' = 0
    /\ requests' = 0
    /\ nodes' = e.nodes
    /\ root' = root
    /\ total_api_calls' = total_api_calls + 1
    /\ \/ \* _emit_intermediate_result raises, before "Track best"
          /\ emitter = "failing" /\ valves.show_intermediate
          /\ Return(ErrorSearch(err))
          /\ UNCHANGED <<best_score, best_node, no_improvement, best_score_history,
                         iteration, leaf, weak, attempt, tasks>>
       \/ Compared(e, RLess(best_score, e.score), err)

NewAnswered(c) ==
    /\ last_error' = c.last_error
    /\ IF ~c.done THEN Retry(c) ELSE NewEvaluated(evaluation(leaf, c.result), c.last_error)

\* the answer to a request of the evaluation of the new child chosen by
\* _expand (lines 549-569), then the rest of the iteration
EvaluateNew(resp) ==
    /\ pc = "evaluate_new"
    /\ NewAnswered(llm_call(call_attempt, resp, last_error, valves.max_retries))
    /\ call_outcome' = outcome(llm_call(call_attempt, resp, last_error, valves.max_retries))
    /\ UNCHANGED frame_eval

\* the rest of such an iteration without `no_improvement += 1`
AfterSelfEvaluation_uncounted(ns, calls, err) ==
    /\ nodes' = ns
    /\ root' = root
    /\ total_api_calls' = calls
    /\ best_score' = best_score
    /\ best_node' = best_node
    /\ no_improvement' = no_improvement
    /\ best_score_history' = best_score_history
    /\ AfterEvaluation(ns, best_score, best_node, calls, iteration, leaf,
                       early_stop(ns, best_score, no_improvement)
                           \/ iteration = valves.max_simulations,
                       err)

\* the rest of an iteration that evaluated the selected node itself
AfterSelfEvaluation(ns, calls, err) ==
    /\ nodes' = ns
    /\ root' = root
    /\ total_api_calls' = calls
    /\ best_score' = best_score
    /\ best_node' = best_node
    /\ no_improvement' = no_improvement + 1
    /\ best_score_history' = best_score_history
    /\ AfterEvaluation(ns, best_score, best_node, calls, iteration, leaf,
                       early_stop(ns, best_score, no_improvement + 1)
                           \/ iteration = valves.max_simulations,
                       err)

SelfAnswered(c) ==
    /\ last_error' = c.last_error
    /\ IF ~c.done
       THEN Retry(c)
       ELSE /\ call_attempt' = 0
            /\ requests' = 0
            /\ AfterSelfEvaluation(evaluation(leaf, c.result).nodes, total_api_calls + 1,
                                   c.last_error)

\* the answer to a request of the evaluation after a failed expansion
\* (lines 570-577): the selected node is evaluated again
EvaluateFailed(resp) ==
    /\ pc = "evaluate_failed"
    /\ SelfAnswered(llm_call(call_attempt, resp, last_error, valves.max_retries))
    /\ call_outcome' = outcome(llm_call(call_attempt, resp, last_error, valves.max_retries))
    /\ UNCHANGED frame_eval

\* "Just simulate existing leaf" (lines 578-587): the selected node is
\* evaluated if it has no scores, with the answer to a request of that
\* evaluation; a node that has scores is backpropagated without a request.
EvaluateLeaf(resp) ==
    /\ pc = "evaluate_leaf"
    /\ IF nodes[leaf].scores # <<>>
       THEN /\ last_error' = last_error
            /\ UNCHANGED <<call_attempt, requests, call_outcome>>
            /\ AfterSelfEvaluation(
                   backprop(nodes, leaf, get_total_score(nodes[leaf].scores, metrics)),
                   total_api_calls, last_error)
       ELSE /\ SelfAnswered(llm_call(call_attempt, resp, last_error, valves.max_retries))
            /\ call_outcome' =
                   outcome(llm_call(call_attempt, resp, last_error, valves.max_retries))
    /\ UNCHANGED frame_eval

(***************************************************************************)
(* The run of improve_content                                              *)
(***************************************************************************)
Init ==
    /\ \/ env = "any" /\ \E v \in AnyValves : InitRun(v)
       \/ env = "search" /\ \E v \in SearchValves : InitRun(v)
    /\ llm = Idle
    /\ ev = Idle
    /\ cand = Idle
    /\ gm = Idle

Next ==
    \/ \E t \in Texts, g \in Goals, em \in Emitters : ImproveContent(t, g, em)
    \/ \E resp \in TestApiResponses : TestApi(resp)
    \/ \E resp \in GoalResponses : InferGoal(resp)
    \/ \E resp \in MetricsResponses : GenerateMetrics(resp)
    \/ \E resp \in EvalResponses : EvaluateRoot(resp)
    \/ \E t \in 1..Len(tasks) :
           \E resp \in (IF tasks[t].stage = "critique" THEN CritiqueResponses
                        ELSE RewriteResponses) : TaskRequest(t, resp)
    \/ ExpandGather
    \/ \E resp \in EvalResponses : EvaluateNew(resp)
    \/ \E resp \in EvalResponses : EvaluateFailed(resp)
    \/ \E resp \in EvalResponses : EvaluateLeaf(resp)

Spec == Init /\ [][Next]_vars

(***************************************************************************)
(* One _llm_call on its own: max_retries drawn, every request answered by  *)
(* any response of the service.  log holds the responses of the requests   *)
(* issued so far.                                                          *)
(***************************************************************************)
MaxRetriesLlm == 3

UnitValves ==
    MakeValves(<<"k">>, 1, 1, 1, 1, FALSE,
               [early_stop_patience |-> 1, early_stop_threshold |-> Threshold(90),
                min_depth |-> 1])

LlmText == <<"o", "k">>

LlmResponses ==
    {Ok(LlmText \o <<"\n">>), Ok(<<" ">>), Ok(<<>>), Http(200, "output", LlmText),
     Http(200, "malformed", <<>>), Http(200, "unknown", <<>>), Timeout}
        \cup {Http(st, "", <<>>) : st \in RetryableStatus \cup {401, 404}}

InitLlm ==
    /\ env = "llm_call"
    /\ InitRun(UnitValves)
    /\ \E r \in 1..MaxRetriesLlm :
           llm = [on |-> TRUE, max_retries |-> r, attempt |-> 0, log |-> <<>>,
                  done |-> FALSE, result |-> NoneStr, last_error |-> NoneStr]
    /\ ev = Idle
    /\ cand = Idle
    /\ gm = Idle

\* the call after the turn c for the request answered by resp
LlmAnswered(resp, c) ==
    llm' = [llm EXCEPT !.attempt = c.attempt, !.log = Append(@, resp), !.done = c.done,
                       !.result = c.result, !.last_error = c.last_error]

\* one request of the call is answered by resp
LlmRequest(resp) ==
    /\ llm.on
    /\ ~llm.done
    /\ LlmAnswered(resp, llm_call(llm.attempt, resp, llm.last_error, llm.max_retries))
    /\ UNCHANGED <<env, run_vars, ev, cand, gm>>

NextLlm == \E resp \in LlmResponses : LlmRequest(resp)

SpecLlm == InitLlm /\ [][NextLlm]_vars

(***************************************************************************)
(* One _evaluate_node on its own: the metrics of the run and the result of *)
(* the evaluation's _llm_call are drawn, the result being None (the call   *)
(* failed) or any text of at most MaxResponseLen lexemes.                  *)
(***************************************************************************)
MaxResponseLen == 4

EvalLexemes == {"tone", "DEPTH", ":", "0", "15", "7.5", "n/a"}

\* a number with digits after the point
fractional(x) == number_value(x)[2] # 1

\* Lexemes follow one another without a space.  The texts drawn are those a
\* character-wise reading splits into the same lexemes: no number is followed
\* by a word character, and no number with a point follows one.
glued(r) ==
    \E i \in 1..(Len(r) - 1) :
        \/ IsNumber(r[i]) /\ word_like(r[i + 1])
        \/ word_like(r[i]) /\ IsNumber(r[i + 1]) /\ fractional(r[i + 1])

EvalResults ==
    {NoneStr} \cup
        {r \in UNION {[1..n -> EvalLexemes] : n \in 1..MaxResponseLen} : ~glued(r)}

EvalMetrics == {<<"TONE", "DEPTH", "CLARITY">>, DefaultMetrics}

InitEval ==
    /\ env = "evaluate_node"
    /\ InitRun(UnitValves)
    /\ llm = Idle
    /\ \E ms \in EvalMetrics, r \in EvalResults :
           ev = [on |-> TRUE, metrics |-> ms, response |-> r, done |-> FALSE,
                 scores |-> <<>>, total |-> Zero, weak |-> ""]
    /\ cand = Idle
    /\ gm = Idle

\* node["scores"] = scores; score = self._get_total_score(scores); and, when
\* the node is expanded, weak = self._get_weakest_metric(node.get("scores"))
Stored(scores) ==
    ev' = [ev EXCEPT !.done = TRUE, !.scores = scores,
                     !.total = get_total_score(scores, ev.metrics),
                     !.weak = get_weakest_metric(scores, ev.metrics)]

EvaluateNode ==
    /\ ev.on
    /\ ~ev.done
    /\ Stored(evaluate_node(ev.response, ev.metrics))
    /\ UNCHANGED <<env, run_vars, llm, cand, gm>>

NextEval == EvaluateNode

SpecEval == InitEval /\ [][NextEval]_vars

(***************************************************************************)
(* _create_child on its own: candidates for one parent, one after the      *)
(* other, each given the results of its two _llm_calls (a text or None);   *)
(* an accepted candidate is attached as _expand attaches it.  The texts    *)
(* are written in characters: two-letter words joined by single spaces.    *)
(***************************************************************************)
MaxCandidates == 2

Letters == <<"a", "b", "c", "d", "e", "f", "g", "h", "i", "j">>

\* the two-letter word number k, k in 0..99
Word(k) == <<Letters[(k \div 10) + 1], Letters[(k % 10) + 1]>>

\* the words a..b joined by single spaces
Sample(a, b) ==
    SubSeq([i \in 1..(3 * (b - a + 1) - 1) |->
               IF (i - 1) % 3 = 2 THEN " " ELSE Word(a + ((i - 1) \div 3))[((i - 1) % 3) + 1]],
           1, 3 * (b - a + 1) - 1)

\* s and one more word
With(s, k) == s \o <<" ">> \o Word(k)

\* 99 words; 20 words
CandParents == {Sample(1, 99), Sample(1, 20)}

\* With the 99 words: 97, 96, 95 and 80 of them and one other word (Jaccard
\* 97/100, 96/100, 95/100, 80/100).  With the 20 words: 19 of them (19/20),
\* the same 20 (1), 13 of them (under 50 characters).
CandRewrites ==
    {With(Sample(1, 97), 0), With(Sample(1, 96), 0), With(Sample(1, 95), 0),
     With(Sample(1, 80), 0), Sample(1, 19), Sample(1, 20) \o <<"\n">>, Sample(1, 13),
     NoneStr}

CandCritiques == {<<" ">> \o GoodCritique, SubSeq(GoodCritique, 1, 9), NoneStr}

NewCandidate(parent_nodes, counter, made) ==
    [on |-> TRUE, nodes |-> parent_nodes, node_counter |-> counter, stage |-> "critique",
     critique |-> NoneStr, new_content |-> NoneStr, child |-> 0, made |-> made]

InitChild ==
    /\ env = "create_child"
    /\ InitRun(UnitValves)
    /\ llm = Idle
    /\ ev = Idle
    /\ \E p \in CandParents : cand = NewCandidate(<<create_node(p, 0, 0)>>, 1, 1)
    /\ gm = Idle

\* critique = await self._llm_call(THOUGHTS_PROMPT, ...) returned r
CandCritique(r) ==
    /\ cand.on
    /\ cand.stage = "critique"
    /\ cand' = [cand EXCEPT !.critique = r,
                            !.stage = IF critique_ok(r) THEN "rewrite" ELSE "done"]
    /\ UNCHANGED <<env, run_vars, llm, ev, gm>>

\* the child of parent 1 created from the stripped rewrite, attached
attached(ns, new_content, critique, counter) ==
    add_child(Append(ns, [create_node(new_content, 1, counter)
                             EXCEPT !.critique = strip(critique)]),
              1, Len(ns) + 1)

\* new_content = await self._llm_call(UPDATE_PROMPT, ...) returned r
CandRewrite(r) ==
    /\ cand.on
    /\ cand.stage = "rewrite"
    /\ cand' = IF content_ok(r, cand.nodes[1].content)
               THEN [cand EXCEPT !.stage = "done", !.new_content = r,
                                 !.child = Len(cand.nodes) + 1,
                                 !.node_counter = @ + 1,
                                 !.nodes = attached(@, strip(r), cand.critique,
                                                    cand.node_counter)]
               ELSE [cand EXCEPT !.stage = "done", !.new_content = r]
    /\ UNCHANGED <<env, run_vars, llm, ev, gm>>

\* the next _create_child for the same parent
CandNext ==
    /\ cand.on
    /\ cand.stage = "done"
    /\ cand.made < MaxCandidates
    /\ cand' = NewCandidate(cand.nodes, cand.node_counter, cand.made + 1)
    /\ UNCHANGED <<env, run_vars, llm, ev, gm>>

NextChild ==
    \/ \E r \in CandCritiques : CandCritique(r)
    \/ \E r \in CandRewrites : CandRewrite(r)
    \/ CandNext

SpecChild == InitChild /\ [][NextChild]_vars

(***************************************************************************)
(* One _generate_metrics on its own: the result of its _llm_call is None   *)
(* (the call failed) or a text of at most MaxMetricLines lines, each drawn *)
(* from MetricLineKinds, joined by newlines.                               *)
(***************************************************************************)
MaxMetricLines == 6

\* a metric; a metric with spaces around its name and a second colon; a line
\* without a colon; a blank line; a colon alone
MetricLineKinds ==
    {<<"tone", ":", "what it measures">>,
     <<" ", "Evidence Quality", " ", ":", " ", "what it measures", ":", "more">>,
     <<"no metrics, sorry">>,
     <<" ">>,
     <<":">>}

RECURSIVE JoinLines(_)
JoinLines(ls) ==
    IF ls = <<>> THEN <<>>
    ELSE IF Len(ls) = 1 THEN Head(ls)
    ELSE Head(ls) \o <<"\n">> \o JoinLines(Tail(ls))

MetricsResults ==
    {NoneStr} \cup {JoinLines(ls) : ls \in UNION {[1..n -> MetricLineKinds] : n \in 1..MaxMetricLines}}

InitMetrics ==
    /\ env = "generate_metrics"
    /\ InitRun(UnitValves)
    /\ llm = Idle
    /\ ev = Idle
    /\ cand = Idle
    /\ \E r \in MetricsResults :
           gm = [on |-> TRUE, result |-> r, done |-> FALSE, ok |-> FALSE,
                 metrics |-> NoneStr, metrics_desc |-> <<>>]

\* metrics_ok = await self._generate_metrics(...) returned g
MetricsReturned(g) ==
    gm' = [gm EXCEPT !.done = TRUE, !.ok = g.ok, !.metrics = g.metrics,
                     !.metrics_desc = g.metrics_desc]

GenerateMetricsUnit ==
    /\ gm.on
    /\ ~gm.done
    /\ MetricsReturned(generate_metrics(gm.result, gm.metrics, gm.metrics_desc))
    /\ UNCHANGED <<env, run_vars, llm, ev, cand>>

NextMetrics == GenerateMetricsUnit

SpecMetrics == InitMetrics /\ [][NextMetrics]_vars

(***************************************************************************)
(* Two calls of improve_content on the same Tools instance, one after the  *)
(* other.  The second call starts with the fields of the instance as the   *)
(* first call left them, except those lines 269-273 assign; its local      *)
(* variables are new.                                                      *)
(***************************************************************************)
RunsValves ==
    {MakeValves(<<"k">>, MaxSimulations, 1, MaxThoughts, 1, FALSE,
                [early_stop_patience |-> 2, early_stop_threshold |-> Threshold(90),
                 min_depth |-> 1])}

InitRuns ==
    /\ env = "first run"
    /\ \E v \in RunsValves : InitRun(v)
    /\ llm = Idle
    /\ ev = Idle
    /\ cand = Idle
    /\ gm = Idle

\* the second call with node_counter left as the first call left it
ImproveContentAgain_counter_kept(t, g, em) ==
    /\ env = "first run"
    /\ pc \in {"done", "raised"}
    /\ env' = "second run"
    /\ emitter' = em
    /\ last_error' = NoneStr
    /\ metrics' = NoneStr
    /\ metrics_desc' = <<>>
    /\ node_counter' = node_counter
    /\ goal_arg' = g
    /\ nodes' = <<>>
    /\ root' = 0
    /\ best_score' = Zero
    /\ best_node' = 0
    /\ no_improvement' = 0
    /\ total_api_calls' = 0
    /\ iteration' = 0
    /\ leaf' = 0
    /\ weak' = ""
    /\ attempt' = 0
    /\ tasks' = <<>>
    /\ call_attempt' = 0
    /\ requests' = 0
    /\ call_outcome' = "no call"
    /\ IF valves.api_key = <<>>
       THEN Return(ErrorNoKey) /\ text' = t
       ELSE IF t = <<>> \/ strip(t) = <<>>
       THEN Return(ErrorNoText) /\ text' = t
       ELSE /\ text' = strip(t)
            /\ \E k \in EmitRaises(em, 1) :
                   IF k # 0 THEN Raise ELSE pc' = "test_api" /\ result' = NoResult
    /\ UNCHANGED <<valves, goal, best_score_history, unit_vars>>

\* improve_content called again after it returned or raised, to its first
\* request
ImproveContentAgain(t, g, em) ==
    /\ env = "first run"
    /\ pc \in {"done", "raised"}
    /\ env' = "second run"
    /\ emitter' = em
    /\ last_error' = NoneStr
    /\ metrics' = NoneStr
    /\ metrics_desc' = <<>>
    /\ node_counter' = 0
    /\ goal_arg' = g
    /\ nodes' = <<>>
    /\ root' = 0
    /\ best_score' = Zero
    /\ best_node' = 0
    /\ no_improvement' = 0
    /\ total_api_calls' = 0
    /\ iteration' = 0
    /\ leaf' = 0
    /\ weak' = ""
    /\ attempt' = 0
    /\ tasks' = <<>>
    /\ call_attempt' = 0
    /\ requests' = 0
    /\ call_outcome' = "no call"
    /\ IF valves.api_key = <<>>
       THEN Return(ErrorNoKey) /\ text' = t
       ELSE IF t = <<>> \/ strip(t) = <<>>
       THEN Return(ErrorNoText) /\ text' = t
       ELSE /\ text' = strip(t)
            /\ \E k \in EmitRaises(em, 1) :
                   IF k # 0 THEN Raise ELSE pc' = "test_api" /\ result' = NoResult
    /\ UNCHANGED <<valves, goal, best_score_history, unit_vars>>

NextRuns ==
    \/ Next
    \/ \E t \in {RootText}, g \in {<<>>}, em \in Emitters : ImproveContentAgain(t, g, em)

SpecRuns == InitRuns /\ [][NextRuns]_vars

(***************************************************************************)
(* A run with the default stopping policy of the Valves and enough         *)
(* iterations for _select to compare visited children: every critique is   *)
(* accepted, a rewrite is the text of 8 words or the text of 10 words (a   *)
(* rewrite equal to the content of its parent is rejected), an evaluation  *)
(* scores 9.0 or 5.5.                                                      *)
(***************************************************************************)
SelectSimulations == 4

SelectValves ==
    {MakeValves(<<"k">>, SelectSimulations, c, t, 1, FALSE,
                [early_stop_patience |-> 3, early_stop_threshold |-> Threshold(90),
                 min_depth |-> 3]) : c \in 1..MaxChildren, t \in 1..MaxThoughts}

InitSelect ==
    /\ env = "select"
    /\ \E v \in SelectValves : InitRun(v)
    /\ llm = Idle
    /\ ev = Idle
    /\ cand = Idle
    /\ gm = Idle

SpecSelect == InitSelect /\ [][Next]_vars

(***************************************************************************)
(* Properties of the run of improve_content (Spec)                         *)
(***************************************************************************)

\* C1: early stopping respects min_depth: when improve_content has returned
\* its report and the search ended before max_simulations iterations were
\* executed, the maximum depth of the tree is at least min_depth.
C1_EarlyStopRespectsMinDepth ==
    (pc = "done" /\ result.report.on /\ iteration < valves.max_simulations)
        => get_max_depth(nodes, root, 0) >= valves.min_depth

\* C2: improve_content never raises to its caller: it ends by returning an
\* error message that starts with the warning marker or the report with the
\* "Optimization Complete" header.
C2_NeverRaises ==
    /\ pc # "raised"
    /\ pc = "done" =>
           \/ Head(result.head) = WarningSign
           \/ "## Optimization Complete!" \in ToSet(result.head)

\* C4: in every reachable state every node has at most max_children
\* children.
C4_AtMostMaxChildren ==
    \A n \in 1..Len(nodes) : Len(nodes[n].children) <= valves.max_children

\* C5: once the scores of a node are set they are never changed: no step
\* gives a node that has scores other scores.
C5_ScoresNeverChange ==
    [][\A n \in 1..Len(nodes) :
           (nodes[n].scores # <<>> /\ n <= Len(nodes'))
               => nodes'[n].scores = nodes[n].scores]_vars

\* str(e) of a timeout, or the error of a status in {429, 500, 502, 503}
transient(err) ==
    \/ err = <<"">>
    \/ Len(err) = 2 /\ err[1] = "API" /\ err[2] \in RetryableStatus

\* C8: a transient failure of a request makes the run return an error only
\* after max_retries requests of the call that failed: when the run has
\* returned the API error or the metrics error with a transient last error,
\* that call issued max_retries requests.
C8_TransientFailuresRetried ==
    (/\ pc = "done"
     /\ result.head \in {ErrorApi(<<>>).head, ErrorMetrics(<<>>).head}
     /\ transient(result.detail))
        => requests >= valves.max_retries

\* C9: every non-root node passed the acceptance checks against its parent:
\* a critique of at least 10 characters, a content of at least 50 characters
\* and of at least 70% of the length of the parent's content.
C9_ChildrenPassChecks ==
    \A n \in 1..Len(nodes) :
        nodes[n].parent # 0 =>
            /\ len(nodes[n].critique) >= 10
            /\ len(nodes[n].content) >= 50
            /\ 10 * len(nodes[n].content) >= 7 * len(nodes[nodes[n].parent].content)

\* an attached child whose content is shorter than its parent's
C9_ShorterChildAttached ==
    \E n \in 1..Len(nodes) :
        /\ nodes[n].parent # 0
        /\ n \in ToSet(nodes[nodes[n].parent].children)
        /\ len(nodes[n].content) < len(nodes[nodes[n].parent].content)

\* C11: the content of the best node of a successful run is never shorter
\* than the stripped input text.
C11_BestContentNotShorter ==
    (pc = "done" /\ result.report.on) => len(result.report.content) >= len(text)

\* the nodes on the parent chain from n up to and including the root
RECURSIVE parent_chain(_, _)
parent_chain(ns, n) == IF n = 0 THEN {} ELSE {n} \cup parent_chain(ns, ns[n].parent)

\* the node whose evaluation the step completes
evaluated_node == IF pc = "evaluate_root" THEN root ELSE leaf

\* the step backpropagates a score: an evaluation has completed
backprop_step ==
    /\ pc \in {"evaluate_root", "evaluate_new", "evaluate_failed", "evaluate_leaf"}
    /\ nodes' # nodes

\* C12: a backpropagation of the score s of the evaluated node adds 1 to
\* visits and s to value on every node of the parent chain of that node up to
\* the root and changes visits and value of no other node; no step decreases
\* the visits of a node.
C12_BackpropAlongParentChain ==
    [][/\ (\A k \in 1..Len(nodes) :
               k <= Len(nodes') /\ nodes'[k].visits >= nodes[k].visits)
        /\ backprop_step =>
              \A n \in 1..Len(nodes) :
                  IF n \in parent_chain(nodes, evaluated_node)
                  THEN /\ nodes'[n].visits = nodes[n].visits + 1
                       /\ nodes'[n].value =
                              RAdd(nodes[n].value,
                                   get_total_score(nodes'[evaluated_node].scores, metrics))
                  ELSE /\ nodes'[n].visits = nodes[n].visits
                       /\ nodes'[n].value = nodes[n].value]_vars

\* a child and the root have been backpropagated while a sibling was not:
\* the root has the two scores, the child its own
C12_ChildAndRootVisited ==
    \E n, m \in 1..Len(nodes) :
        /\ n # m
        /\ nodes[n].parent = 1
        /\ nodes[m].parent = 1
        /\ nodes[1].visits = 2
        /\ nodes[n].visits = 1
        /\ nodes[m].visits = 0
        /\ nodes[n].value = get_total_score(nodes[n].scores, metrics)
        /\ nodes[1].value = RAdd(get_total_score(nodes[1].scores, metrics), nodes[n].value)
        /\ nodes[n].value # nodes[1].value

\* the children of p that have not been visited
unvisited_children(p) == {c \in ToSet(nodes[p].children) : nodes[c].visits = 0}

\* the child of p through which the walk of _select reached the selected node
child_towards_leaf(p) ==
    CHOOSE c \in ToSet(nodes[p].children) : c \in parent_chain(nodes, leaf)

\* C13: while the node returned by _select is being expanded or evaluated,
\* every node the walk descended from that had both an unvisited and a
\* visited child was left through an unvisited child.
C13_UnvisitedChildPreferred ==
    pc \in {"expand", "evaluate_leaf"} =>
        \A p \in parent_chain(nodes, leaf) \ {leaf} :
            (/\ unvisited_children(p) # {}
             /\ unvisited_children(p) # ToSet(nodes[p].children))
                => nodes[child_towards_leaf(p)].visits = 0

\* the walk has left the root, which has a visited and an unvisited child,
\* and returned the unvisited one
C13_DescendedToUnvisited ==
    /\ pc = "evaluate_leaf"
    /\ leaf # 1
    /\ nodes[leaf].parent = 1
    /\ nodes[leaf].visits = 0
    /\ \E c \in ToSet(nodes[1].children) : nodes[c].visits > 0

\* the nodes returned by _create_child coroutines that _expand has not
\* gathered yet
pending(ts) == {ts[t].child : t \in 1..Len(ts)} \ {0}

\* the number of times c occurs in the list ch
occurrences(ch, c) == Cardinality({i \in 1..Len(ch) : ch[i] = c})

\* following at most k parent links from n reaches r
RECURSIVE reaches(_, _, _, _)
reaches(ns, n, r, k) ==
    IF n = r THEN TRUE
    ELSE IF k = 0 \/ ns[n].parent = 0 THEN FALSE
    ELSE reaches(ns, ns[n].parent, r, k - 1)

\* ns, with the nodes in held back, is one tree rooted at r
one_tree(ns, r, held) ==
    /\ ns[r].parent = 0
    /\ ns[r].content = text
    /\ \A n \in (1..Len(ns)) \ held :
           /\ n # r => /\ ns[n].parent \in (1..Len(ns)) \ held
                       /\ occurrences(ns[ns[n].parent].children, n) = 1
                       /\ \A q \in (1..Len(ns)) \ {ns[n].parent} :
                              occurrences(ns[q].children, n) = 0
           /\ reaches(ns, n, r, Len(ns))
           /\ \A i \in 1..Len(ns[n].children) : ns[n].children[i] \in (1..Len(ns)) \ held
    /\ count_nodes(ns, r) = Len(ns) - Cardinality(held)

\* C14: after every step the nodes attached so far form one tree rooted at
\* the node created from the input text (the root has no parent, every other
\* node is exactly once in the children of its parent and in no other list,
\* the parent links lead to the root), and no step removes a node.
C14_OneTreeNothingRemoved ==
    [][/\ root' # 0 => one_tree(nodes', root', pending(tasks'))
       /\ Len(nodes') >= Len(nodes)
       /\ root # 0 =>
              /\ root' = root
              /\ count_nodes(nodes', root') >= count_nodes(nodes, root)
              /\ \A n \in 1..Len(nodes) :
                     /\ nodes'[n].id = nodes[n].id
                     /\ nodes'[n].content = nodes[n].content]_vars

\* a tree of depth 2 with a node that has two children
C14_TreeOfDepthTwo ==
    /\ root # 0
    /\ pending(tasks) = {}
    /\ get_max_depth(nodes, root, 0) = 2
    /\ \E n \in 1..Len(nodes) : Len(nodes[n].children) = 2

\* C15: node ids are unique and assigned in creation order under every
\* interleaving of the _create_child tasks: the root is n1, and a node
\* created later has a larger id number than every node created earlier.
C15_IdsUniqueAndIncreasing ==
    /\ root # 0 => nodes[root].id = 1
    /\ \A n, m \in 1..Len(nodes) : n < m => nodes[n].id < nodes[m].id
    /\ \A n \in 1..Len(nodes) : nodes[n].id <= node_counter

\* the two tasks of one attempt have each created a node, the second task
\* before the first
C15_TasksCreatedOutOfOrder ==
    /\ pc = "expand"
    /\ Len(tasks) = 2
    /\ tasks[2].child # 0
    /\ tasks[1].child > tasks[2].child
    /\ nodes[tasks[1].child].id = nodes[tasks[2].child].id + 1

\* C16: a call of improve_content with an empty API key, or with a text that
\* is empty or only whitespace, returns its error at once: the key error when
\* the key is empty (whatever the text), the text error otherwise; no
\* request is issued, no node is created, and nothing follows the return.
C16_ConfigurationErrorImmediate ==
    [][/\ pc # "done"
       /\ (pc = "idle" /\ (valves.api_key = <<>> \/ strip(text') = <<>>)) =>
              /\ pc' = "done"
              /\ result' = IF valves.api_key = <<>> THEN ErrorNoKey ELSE ErrorNoText
              /\ nodes' = <<>>
              /\ node_counter' = 0
              /\ root' = 0
              /\ requests' = 0
              /\ call_attempt' = 0
              /\ total_api_calls' = 0
              /\ last_error' = NoneStr]_vars

\* improve_content was called with an empty key and a text of whitespace and
\* has returned the key error
C16_KeyErrorBeforeTextError ==
    /\ pc = "done"
    /\ valves.api_key = <<>>
    /\ text # <<>>
    /\ strip(text) = <<>>
    /\ result = ErrorNoKey

\* the step ends the _llm_call of _generate_metrics with its last attempt
\* failed: every one of the max_retries requests raised or returned nothing
metrics_call_failed ==
    /\ pc = "generate_metrics"
    /\ call_outcome' = "None"

\* C18: when the call of _generate_metrics fails, improve_content returns the
\* metrics error with the last error, no node has been created and no
\* request follows: nothing is evaluated, criticised or rewritten.
C18_MetricsFailureEndsRun ==
    [][/\ metrics_call_failed =>
              /\ pc' = "done"
              /\ result' = ErrorMetrics(last_error')
              /\ nodes' = <<>>
              /\ root' = 0
              /\ node_counter' = 0
              /\ total_api_calls' = 0
       /\ (pc = "done" /\ result.head = ErrorMetrics(<<>>).head) => FALSE]_vars

\* both requests of the metric-generation call failed and improve_content
\* has returned the metrics error
C18_MetricsErrorReturned ==
    /\ pc = "done"
    /\ valves.max_retries = 2
    /\ requests = 2
    /\ call_outcome = "None"
    /\ result = ErrorMetrics(last_error)
    /\ last_error # NoneStr
    /\ nodes = <<>>

\* C19: when no goal is supplied, the end of the goal-inference call never
\* makes improve_content return: if the call returned None (its requests
\* raised or returned nothing) the goal is the default goal; if it returned
\* a text, the goal is that text when it has more than 10 characters and
\* the default goal otherwise; and the run goes on to metric generation
\* unless the status callback raises.
C19_GoalInferenceNonFatal ==
    [][(pc = "infer_goal" /\ call_outcome' \in {"None", "text"}) =>
           /\ pc' # "done"
           /\ emitter # "failing" => pc' = "generate_metrics"
           /\ call_outcome' = "None" => goal' = DefaultGoal
           /\ goal' # NoneStr
           /\ goal' = DefaultGoal \/ len(goal') > 10]_vars

\* the inference call failed and metric generation is about to start with
\* the default goal
C19_DefaultGoalAfterFailure ==
    /\ pc = "generate_metrics"
    /\ call_outcome = "None"
    /\ goal_arg = <<>>
    /\ goal = DefaultGoal
    /\ last_error # NoneStr

\* the lists of children of the nodes
children_lists(ns) == [n \in 1..Len(ns) |-> ns[n].children]

\* C20: when both attempts of _expand gave no valid candidate, the iteration
\* adds no node: the selected node itself is evaluated and backpropagated,
\* no_improvement is incremented, the best node is kept, and the stop check
\* follows: the run returns its report when the check or the iteration
\* limit ends the loop and goes on with the next iteration otherwise.  A run
\* that returns with the root as its only node returns a success report
\* with the root as best node (the callback not raising).
C20_ExpansionFailureNotFatal ==
    [][/\ (pc = "expand" /\ pc' = "evaluate_failed") =>
              /\ attempt = 1
              /\ pending(tasks) = {}
              /\ nodes' = nodes
              /\ leaf' = leaf
       /\ (pc = "evaluate_failed" /\ call_outcome' # "retry") =>
              /\ Len(nodes') = Len(nodes)
              /\ children_lists(nodes') = children_lists(nodes)
              /\ nodes'[leaf].visits = nodes[leaf].visits + 1
              /\ nodes'[leaf].scores # <<>>
              /\ no_improvement' = no_improvement + 1
              /\ best_node' = best_node
              /\ total_api_calls' = total_api_calls + 1
              /\ emitter # "failing" =>
                     IF \/ early_stop(nodes', best_score', no_improvement')
                        \/ iteration = valves.max_simulations
                     THEN pc' = "done" /\ result'.report.on
                     ELSE pc' \in {"expand", "evaluate_leaf"} /\ iteration' = iteration + 1
       /\ (pc' = "done" /\ Len(nodes') = 1 /\ emitter # "failing") =>
              /\ result'.report.on
              /\ result'.report.best_id = nodes'[root'].id
              /\ result'.report.content = text]_vars

\* every expansion of a run of two iterations failed and the run has
\* returned its report with the root as best node
C20_EveryExpansionFailed ==
    /\ pc = "done"
    /\ result.report.on
    /\ Len(nodes) = 1
    /\ iteration = 2
    /\ no_improvement = 2
    /\ nodes[1].visits = 3
    /\ result.report.best_id = 1

\* C21: the callback never affects control flow: a run given a callback ends
\* as a run without one can end, that is, improve_content does not raise and
\* does not return the error of an exception caught around the search
\* (without a callback nothing in the search raises).
C21_CallbackAdvisory ==
    emitter # "None" =>
        /\ pc # "raised"
        /\ pc = "done" => result.head # ErrorSearch(<<>>).head

\* without a callback improve_content neither raises nor returns the error
\* of an exception caught around the search
NoCallbackNoException ==
    emitter = "None" =>
        /\ pc # "raised"
        /\ pc = "done" => result.head # ErrorSearch(<<>>).head

\* C23: the metrics are generated once in a run and not modified after:
\* the metric-generation call is entered only from the goal step, with no
\* metrics yet, and is not entered again once left; from the step that sets
\* the metrics on, no step changes the goal, the metric list or the metric
\* descriptions; and the search runs with 3 to 5 metrics.
C23_MetricsGeneratedOnce ==
    [][/\ (pc # "generate_metrics" /\ pc' = "generate_metrics") =>
              /\ pc \in {"test_api", "infer_goal"}
              /\ metrics = NoneStr
       /\ metrics # NoneStr =>
              /\ pc' # "generate_metrics"
              /\ metrics' = metrics
              /\ metrics_desc' = metrics_desc
              /\ goal' = goal
       /\ root' # 0 => /\ metrics' # NoneStr
                       /\ Len(metrics') \in 3..5]_vars

\* a search of two iterations has returned its report with the metrics
\* generated before it
C23_SearchedWithGeneratedMetrics ==
    /\ pc = "done"
    /\ result.report.on
    /\ iteration = 2
    /\ Len(nodes) >= 3
    /\ metrics = <<"TONE", "DEPTH", "CLARITY">>
    /\ Len(metrics_desc) = 3

\* the total score of the node the step has evaluated
evaluated_score == get_total_score(nodes'[evaluated_node].scores, metrics)

\* C24: in every iteration (the callback not raising), when the evaluation
\* of the iteration gives a total score strictly greater than the best score,
\* the best score and the best node become that score and that node and
\* no_improvement becomes 0; otherwise the best score and the best node are
\* unchanged and no_improvement is incremented.
C24_BestTrackedEveryIteration ==
    [][(backprop_step /\ pc # "evaluate_root" /\ emitter = "None") =>
           IF RLess(best_score, evaluated_score)
           THEN /\ best_score' = evaluated_score
                /\ best_node' = evaluated_node
                /\ no_improvement' = 0
           ELSE /\ best_score' = best_score
                /\ best_node' = best_node
                /\ no_improvement' = no_improvement + 1]_vars

\* C25: in the report of a finished search the overall score, the mean of
\* the scores stored on the best node, equals the best score of the
\* statistics and the score of the last entry of the score history.
C25_ReportAgreesWithBestScore ==
    (pc = "done" /\ result.report.on) =>
        /\ result.report.overall = result.report.stats.best_score
        /\ best_score_history # <<>>
        /\ best_score_history[Len(best_score_history)].score
               = result.report.stats.best_score

\* after the step: the depth of the tree is at least min_depth, and the best
\* score has reached the threshold or no_improvement the patience
stop_condition_after ==
    /\ get_max_depth(nodes', root', 0) >= valves.min_depth
    /\ \/ RLeq(valves.early_stop_threshold, best_score')
       \/ no_improvement' >= valves.early_stop_patience

\* C26: the stop conditions are tested after each iteration (the callback
\* not raising): the step that ends an iteration returns the report when
\* the stop condition holds or the iteration was the last of
\* max_simulations, and starts the next iteration otherwise; no more than
\* max_simulations iterations are executed.
C26_StopCheckedAfterIteration ==
    [][/\ iteration' <= valves.max_simulations
       /\ (backprop_step /\ pc # "evaluate_root" /\ emitter = "None") =>
              IF stop_condition_after \/ iteration = valves.max_simulations
              THEN /\ pc' = "done"
                   /\ result'.report.on
                   /\ iteration' = iteration
              ELSE /\ pc' \in {"expand", "evaluate_leaf"}
                   /\ iteration' = iteration + 1]_vars

\* the search has stopped after the first of two iterations: no_improvement
\* has reached the patience with the best score under the threshold
C26_StoppedByPatience ==
    /\ pc = "done"
    /\ result.report.on
    /\ iteration = 1
    /\ valves.max_simulations = 2
    /\ no_improvement >= valves.early_stop_patience
    /\ RLess(best_score, valves.early_stop_threshold)
    /\ get_max_depth(nodes, root, 0) >= valves.min_depth

RECURSIVE in_task_order(_)
in_task_order(ts) ==
    IF ts = <<>> THEN <<>>
    ELSE (IF Head(ts).child # 0 THEN <<Head(ts).child>> ELSE <<>>) \o in_task_order(Tail(ts))

\* a task of the attempt has not returned yet
attempt_in_progress == pc = "expand" /\ \E t \in 1..Len(tasks) : tasks[t].stage # "done"

\* the tasks of the attempt have all returned
attempt_complete == pc = "expand" /\ \A t \in 1..Len(tasks) : tasks[t].stage = "done"

\* C28: while a task of an expansion attempt has not returned, no step
\* changes a node of the tree, under every interleaving of the tasks; the
\* step taken once all have returned appends the valid candidates to the
\* children of the expanded node in task order and changes no other children
\* list and no visits, value or scores.
C28_TasksDoNotMutateTree ==
    [][/\ attempt_in_progress =>
              /\ pc' = "expand"
              /\ leaf' = leaf
              /\ \A n \in 1..Len(nodes) : nodes'[n] = nodes[n]
       /\ attempt_complete =>
              /\ Len(nodes') = Len(nodes)
              /\ nodes'[leaf].children = nodes[leaf].children \o in_task_order(tasks)
              /\ \A n \in 1..Len(nodes) :
                     /\ n # leaf => nodes'[n].children = nodes[n].children
                     /\ nodes'[n].visits = nodes[n].visits
                     /\ nodes'[n].value = nodes[n].value
                     /\ nodes'[n].scores = nodes[n].scores]_vars

\* two candidates of one attempt were attached in task order, the second
\* task having created its node first
C28_AttachedInTaskOrder ==
    /\ pc = "evaluate_new"
    /\ \E n \in 1..Len(nodes) :
           /\ Len(nodes[n].children) = 2
           /\ nodes[n].children[1] > nodes[n].children[2]
           /\ nodes[nodes[n].children[1]].iteration_created = iteration
           /\ nodes[nodes[n].children[2]].iteration_created = iteration

\* the nodes created in the current iteration other than the selected one
others_of_iteration(ns) ==
    {n \in 1..Len(ns) : n # leaf /\ n # root /\ ns[n].iteration_created = iteration}

\* C29: when the tasks of an attempt return k >= 1 valid candidates, exactly
\* those k nodes are added to the children of the expanded node, unvisited
\* and without scores, and one of them is taken for the evaluation; the step
\* that ends this evaluation scores and backpropagates that node and leaves
\* the other k-1 with visits = 0 and no scores; a node never has scores
\* while it has no visits.
C29_ValidCandidatesBecomeChildren ==
    [][/\ (attempt_complete /\ in_task_order(tasks) # <<>>) =>
              /\ Len(nodes'[leaf].children)
                     = Len(nodes[leaf].children) + Len(in_task_order(tasks))
              /\ ToSet(nodes'[leaf].children)
                     = ToSet(nodes[leaf].children) \cup ToSet(in_task_order(tasks))
              /\ pc' = "evaluate_new"
              /\ leaf' \in ToSet(in_task_order(tasks))
              /\ \A c \in ToSet(in_task_order(tasks)) :
                     /\ nodes'[c].parent = leaf
                     /\ nodes'[c].visits = 0
                     /\ nodes'[c].scores = <<>>
       /\ (backprop_step /\ pc = "evaluate_new") =>
              /\ leaf \in ToSet(nodes[nodes[leaf].parent].children)
              /\ nodes[leaf].iteration_created = iteration
              /\ nodes'[leaf].visits = 1
              /\ nodes'[leaf].scores # <<>>
              /\ \A n \in others_of_iteration(nodes) :
                     /\ n \in ToSet(nodes[nodes[leaf].parent].children)
                     /\ nodes'[n].visits = 0
                     /\ nodes'[n].scores = <<>>
       /\ \A n \in 1..Len(nodes') : nodes'[n].visits = 0 => nodes'[n].scores = <<>>]_vars

\* an attempt gave two valid candidates: after the iteration both are
\* children of the root, one evaluated, the other unvisited
C29_OneOfTwoEvaluated ==
    /\ pc = "done"
    /\ result.report.on
    /\ iteration = 1
    /\ Len(nodes[1].children) = 2
    /\ nodes[leaf].parent = 1
    /\ nodes[leaf].visits = 1
    /\ \E n \in ToSet(nodes[1].children) :
           n # leaf /\ nodes[n].visits = 0 /\ nodes[n].scores = <<>>

\* C32: while _expand runs, its attempt is the first or the second and has
\* num_thoughts tasks.  When the tasks of an attempt have all returned, a
\* second attempt follows exactly when the attempt was the first and none
\* returned a node; an attempt with a node ends the expansion, the second
\* attempt without one ends it too.  No task exists and no node is created
\* during the evaluation that follows, and an expansion starts only with a
\* new iteration.
C32_AtMostTwoAttempts ==
    [][/\ pc = "expand" => attempt \in {0, 1} /\ Len(tasks) = valves.num_thoughts
       /\ attempt_complete =>
              /\ (pc' = "expand" /\ attempt' = 1 /\ tasks' = NewTasks)
                     <=> (attempt = 0 /\ valid_children(tasks) = <<>>)
              /\ valid_children(tasks) # <<>> => pc' = "evaluate_new" /\ tasks' = <<>>
              /\ (attempt = 1 /\ valid_children(tasks) = <<>>) => pc' = "evaluate_failed"
       /\ (pc \in {"evaluate_new", "evaluate_failed", "evaluate_leaf"}
               /\ iteration' = iteration) =>
              tasks' = <<>> /\ Len(nodes') = Len(nodes) /\ pc' # "expand"
       /\ (pc # "expand" /\ pc' = "expand") =>
              attempt' = 0 /\ iteration' = iteration + 1]_vars

\* the second attempt of an expansion has returned a node after the first
\* returned none
C32_SecondAttemptValid ==
    /\ pc = "expand"
    /\ attempt = 1
    /\ valves.num_thoughts = MaxThoughts
    /\ attempt_complete
    /\ valid_children(tasks) # <<>>

\* the pc values of the loop of _run_mcts
in_iteration == pc \in {"expand", "evaluate_new", "evaluate_failed", "evaluate_leaf"}

\* the step ends an iteration of the loop
iteration_ends ==
    /\ pc \in {"evaluate_new", "evaluate_failed", "evaluate_leaf"}
    /\ iteration' # iteration \/ pc' # pc

\* C33: a node handed to "just simulate existing leaf" has no scores and no
\* visit, so that branch evaluates it; the step that ends an iteration
\* completes one evaluation (the scores of the evaluated node are set) and
\* backpropagates its score once: the root gets one visit and that score; no
\* other step of the loop changes visits or value of the root.  During
\* iteration i, and in the report after i iterations, the root has 1 + the
\* number of completed iterations as visits.
C33_OneEvaluationPerIteration ==
    [][/\ pc = "evaluate_leaf" => nodes[leaf].scores = <<>> /\ nodes[leaf].visits = 0
       /\ in_iteration => nodes[root].visits = iteration
       /\ (pc' = "done" /\ result'.report.on) => nodes'[root].visits = 1 + iteration'
       /\ iteration_ends =>
              /\ nodes'[leaf].scores # <<>>
              /\ nodes'[leaf].visits = nodes[leaf].visits + 1
              /\ nodes'[root].visits = nodes[root].visits + 1
              /\ nodes'[root].value = RAdd(nodes[root].value, evaluated_score)
       /\ (in_iteration /\ ~iteration_ends) =>
              /\ nodes'[root].visits = nodes[root].visits
              /\ nodes'[root].value = nodes[root].value]_vars

\* the report after two iterations: the root has three visits and the sum of
\* three scores that are not all its own
C33_ThreeScoresSummed ==
    /\ pc = "done"
    /\ result.report.on
    /\ iteration = MaxSimulations
    /\ nodes[root].visits = 3
    /\ nodes[root].value # RMulInt(get_total_score(nodes[root].scores, metrics), 3)

\* the nodes of the tree: the root and the nodes in a list of children
attached_nodes ==
    {n \in 1..Len(nodes) :
        \/ n = root
        \/ \E p \in 1..Len(nodes) : n \in ToSet(nodes[p].children)}

\* the sum of the visits of the nodes in the list ch
RECURSIVE sum_visits(_)
sum_visits(ch) == IF ch = <<>> THEN 0 ELSE nodes[Head(ch)].visits + sum_visits(Tail(ch))

\* C34: once the root is evaluated, in every state (so after every
\* iteration) every node of the tree has at least as many visits as its
\* children together, has scores exactly when it has a visit, and has
\* children only if it has a visit and scores.
C34_VisitsAndScoresConsistent ==
    (root # 0 /\ pc # "evaluate_root") =>
        \A n \in attached_nodes :
            /\ nodes[n].visits >= sum_visits(nodes[n].children)
            /\ nodes[n].scores # <<>> <=> nodes[n].visits >= 1
            /\ nodes[n].children # <<>> => nodes[n].visits >= 1 /\ nodes[n].scores # <<>>

\* the report of a tree of depth 2: a child of the root with two visits and
\* a child of its own, under a root with three visits
C34_VisitedParentOfVisitedChild ==
    /\ pc = "done"
    /\ result.report.on
    /\ \E n \in attached_nodes :
           /\ nodes[n].parent = root
           /\ nodes[n].children # <<>>
           /\ nodes[n].visits = 2
           /\ sum_visits(nodes[n].children) = 1
           /\ nodes[root].visits = 3

\* the last entry of a non-empty history
last_entry(history) == history[Len(history)]

\* C35: a step leaves the score history as it is or appends one entry to
\* it.  The entry appended to the empty history is (0, score of the root, id
\* of the root); an entry appended later has a greater iteration and a
\* greater score than the entry before it.  After every step of the search the
\* first entry has iteration 0 and the id of the root, and the score and the
\* node id of the last entry are best_score and the id of best_node.
C35_HistoryAppendOnly ==
    [][(root # 0 /\ root' # 0) =>
          /\ \/ best_score_history' = best_score_history
             \/ /\ Len(best_score_history') = Len(best_score_history) + 1
                /\ SubSeq(best_score_history', 1, Len(best_score_history))
                       = best_score_history
                /\ IF best_score_history = <<>>
                   THEN last_entry(best_score_history') =
                            [iteration |-> 0,
                             score |-> get_total_score(nodes'[root].scores, metrics),
                             node_id |-> nodes[root].id]
                   ELSE /\ last_entry(best_score_history').iteration
                               > last_entry(best_score_history).iteration
                        /\ RLess(last_entry(best_score_history).score,
                                 last_entry(best_score_history').score)
          /\ best_score_history' # <<>> =>
                 /\ best_score_history'[1].iteration = 0
                 /\ best_score_history'[1].node_id = nodes'[root'].id
                 /\ last_entry(best_score_history').score = best_score'
                 /\ last_entry(best_score_history').node_id = nodes'[best_node'].id]_vars

\* the history of a run with two improvements: the root, its child, the
\* child of its child
C35_TwoImprovements ==
    /\ pc = "done"
    /\ Len(best_score_history) = 3
    /\ best_score_history[1].node_id = nodes[root].id
    /\ best_score_history[3].iteration = 2
    /\ RLess(best_score_history[2].score, best_score_history[3].score)
    /\ nodes[best_node].parent # root

\* C36: in every state every node has at most max_children + num_thoughts - 1
\* children.
C36_ChildrenBound ==
    \A n \in 1..Len(nodes) :
        Len(nodes[n].children) <= valves.max_children + valves.num_thoughts - 1

\* the root, expanded a second time while it had one child of the two
\* allowed, has three children
C36_BoundReached ==
    /\ root # 0
    /\ valves.max_children = MaxChildren
    /\ valves.num_thoughts = MaxThoughts
    /\ Len(nodes[root].children) = MaxChildren + MaxThoughts - 1
    /\ Len(nodes[root].children) > valves.max_children
    /\ iteration = 2

\* the phase of the run at the label p: 0 not called, 1 validation (the
\* checks of the arguments and the test of the API), 2 goal determination by
\* inference, 3 metric generation, 4 search, 5 done
phase(p) ==
    IF p = "idle" THEN 0
    ELSE IF p = "test_api" THEN 1
    ELSE IF p = "infer_goal" THEN 2
    ELSE IF p = "generate_metrics" THEN 3
    ELSE IF p \in {"done", "raised"} THEN 5
    ELSE 4

\* C38: no step takes the run to an earlier phase.  The run waits for a
\* goal-inference request only when improvement_goal is None, empty or
\* blank, and after validation; metric generation follows validation or goal
\* inference; the root is created by the step that ends metric generation
\* with a metric list, and the search starts with it; while there is no root
\* the run is in no phase that issues evaluation, critique or rewrite
\* requests, and there is no task.
C38_PhasesInOrder ==
    [][/\ phase(pc') >= phase(pc)
       /\ pc' = "infer_goal" =>
              /\ pc \in {"test_api", "infer_goal"}
              /\ ~(Truthy(goal_arg') /\ strip(goal_arg') # <<>>)
       /\ (pc' = "generate_metrics" /\ pc # pc') =>
              /\ pc \in {"test_api", "infer_goal"}
              /\ pc = "test_api" <=> (Truthy(goal_arg) /\ strip(goal_arg) # <<>>)
              /\ goal' # NoneStr
       /\ (root = 0 /\ root' # 0) =>
              /\ pc = "generate_metrics"
              /\ call_outcome' \in {"text", "None"}
              /\ metrics' # NoneStr /\ Len(metrics') >= 3
              /\ nodes' = <<create_node(text, 0, 0)>>
       /\ (phase(pc') = 4 /\ phase(pc) # 4) => pc = "generate_metrics" /\ pc' = "evaluate_root"
       /\ phase(pc') = 4 => root' # 0
       /\ root' = 0 => tasks' = <<>> /\ nodes' = <<>> /\ phase(pc') # 4]_vars

\* a run without a goal has gone through every phase and returned its report
C38_AllPhasesPassed ==
    /\ pc = "done"
    /\ result.report.on
    /\ goal_arg = <<>>
    /\ goal # NoneStr
    /\ metrics # NoneStr
    /\ iteration >= 1

\* the resources of the run are within their bounds: the iteration is at
\* most max_simulations; an expansion is in its first or second attempt, of
\* num_thoughts tasks; the request a logical call waits for is at most its
\* max_retries-th, and a call that has ended made at most max_retries
within_bounds ==
    /\ iteration <= valves.max_simulations
    /\ attempt \in {0, 1}
    /\ Len(tasks) \in {0, valves.num_thoughts}
    /\ call_attempt + 1 <= valves.max_retries
    /\ requests <= valves.max_retries
    /\ \A t \in 1..Len(tasks) :
           tasks[t].stage \in {"critique", "rewrite"} =>
               tasks[t].attempt + 1 <= valves.max_retries

\* the requests one _create_child task can still make: those left of its
\* call, and for a critique the max_retries of the rewrite after it
task_requests_left(task) ==
    IF task.stage = "critique" THEN (valves.max_retries - task.attempt) + valves.max_retries
    ELSE IF task.stage = "rewrite" THEN valves.max_retries - task.attempt
    ELSE 0

RECURSIVE tasks_requests_left(_)
tasks_requests_left(ts) ==
    IF ts = <<>> THEN 0 ELSE task_requests_left(Head(ts)) + tasks_requests_left(Tail(ts))

\* the steps of one attempt of _expand: the requests of its num_thoughts
\* tasks and the gather
attempt_steps == 2 * valves.num_thoughts * valves.max_retries + 1

\* the steps of one iteration: two attempts and one evaluation
iteration_steps == 2 * attempt_steps + valves.max_retries

\* the steps left of the iterations after the current one
iterations_left == (valves.max_simulations - iteration) * iteration_steps

\* the steps of _run_mcts from the evaluation of the root
search_steps == valves.max_retries + valves.max_simulations * iteration_steps

\* An upper bound of the number of steps the call of improve_content can
\* still take, each request counted as one step
steps_left ==
    IF pc = "idle" THEN 3 * valves.max_retries + search_steps + 3
    ELSE IF pc = "test_api" THEN 3 * valves.max_retries + search_steps + 2
    ELSE IF pc = "infer_goal"
    THEN (valves.max_retries - call_attempt) + valves.max_retries + search_steps + 1
    ELSE IF pc = "generate_metrics" THEN (valves.max_retries - call_attempt) + search_steps + 1
    ELSE IF pc = "expand"
    THEN tasks_requests_left(tasks) + 1 + (IF attempt = 0 THEN attempt_steps ELSE 0)
             + valves.max_retries + iterations_left
    ELSE IF pc \in {"evaluate_root", "evaluate_new", "evaluate_failed", "evaluate_leaf"}
    THEN (valves.max_retries - call_attempt) + iterations_left
    ELSE 0

\* C40: every call of improve_content ends when its requests are answered:
\* every step of the run, a request answered or the gather of an attempt,
\* takes at least one from a bound of the steps left, which is a natural
\* number, so no run takes more than the 3 * max_retries + search_steps + 3
\* steps of its start; only a run that has ended has no step left to take;
\* without a callback the run ends by returning (with a callback that
\* raises it can end with that exception: C2, C21); and before and after
\* every step the resources of the run are within their bounds.
C40_EveryInvocationReturns ==
    [][/\ steps_left' < steps_left
       /\ steps_left' \in Nat
       /\ within_bounds /\ within_bounds'
       /\ pc' \notin {"done", "raised"} =>
              /\ steps_left' >= 1
              /\ pc' = "expand" =>
                     /\ tasks' # <<>>
                     /\ \A t \in 1..Len(tasks') :
                            tasks'[t].stage \in {"critique", "rewrite", "done"}
              /\ pc' # "expand" => pc' \in {"test_api", "infer_goal", "generate_metrics",
                                            "evaluate_root", "evaluate_new",
                                            "evaluate_failed", "evaluate_leaf"}
       /\ emitter' = "None" => pc' # "raised"]_vars

\* a run in which a request failed has made all its iterations and returned
\* its report
C40_ReturnedAfterFailures ==
    /\ pc = "done"
    /\ result.report.on
    /\ iteration = valves.max_simulations
    /\ valves.max_retries = MaxRetries
    /\ last_error # NoneStr

(***************************************************************************)
(* Properties of _select in a run of four iterations (SpecSelect)          *)
(***************************************************************************)
\* the UCT value of d is above that of its sibling c: d is unvisited and c
\* is not, or both have the same visits and d the greater average
uct_above(d, c) ==
    \/ nodes[c].visits > 0 /\ nodes[d].visits = 0
    \/ uct_below(nodes, c, d)

\* C31: while the node returned by _select is being expanded or evaluated,
\* that node is a leaf or a visited node that is not fully expanded; every
\* node the walk descended from is fully expanded or unvisited, and was left
\* through a child that no sibling is above in UCT value; the walk made as
\* many descents as the depth of the returned node, less than the number of
\* nodes: it ended.
C31_SelectionWalk ==
    pc \in {"expand", "evaluate_leaf"} =>
        /\ \/ nodes[leaf].children = <<>>
           \/ nodes[leaf].visits >= 1 /\ ~fully_expanded(nodes, leaf, valves.max_children)
        /\ root \in parent_chain(nodes, leaf)
        /\ (\A p \in parent_chain(nodes, leaf) \ {leaf} :
               /\ nodes[p].children # <<>>
               /\ fully_expanded(nodes, p, valves.max_children) \/ nodes[p].visits = 0
               /\ \A d \in ToSet(nodes[p].children) : ~uct_above(d, child_towards_leaf(p)))
        /\ Cardinality(parent_chain(nodes, leaf)) = get_node_depth(nodes, leaf) + 1
        /\ get_node_depth(nodes, leaf) < Len(nodes)

\* the walk has left the root, whose two children have one visit each and
\* different averages, through the child with the greater average
C31_GreaterAverageChosen ==
    /\ pc = "expand"
    /\ nodes[leaf].parent = root
    /\ Len(nodes[root].children) = 2
    /\ \E d \in ToSet(nodes[root].children) :
           /\ d # leaf
           /\ nodes[d].visits = 1
           /\ nodes[leaf].visits = 1
           /\ RLess(nodes[d].value, nodes[leaf].value)

\* the depth of the tree: the greatest number of parent links from a node of
\* the tree to the root
tree_depth(ns) ==
    Max({get_node_depth(ns, n) :
            n \in {k \in 1..Len(ns) :
                      k = 1 \/ \E p \in 1..Len(ns) : k \in ToSet(ns[p].children)}})

\* C37: no step adds more than one level to the tree, and only a step of
\* _expand adds one; after every step the depth of the tree is at most the
\* number of the iteration.  A step that ends the search with its report
\* before iteration max_simulations (an early stop) does so in an iteration
\* whose number is at least min_depth.
C37_NoEarlyStopBeforeMinDepth ==
    [][(root # 0 /\ root' # 0) =>
          /\ tree_depth(nodes') <= tree_depth(nodes) + 1
          /\ tree_depth(nodes') # tree_depth(nodes) => pc = "expand" /\ iteration' = iteration
          /\ tree_depth(nodes') <= iteration'
          /\ (in_iteration /\ pc' = "done" /\ result'.report.on
                  /\ iteration' < valves.max_simulations) =>
                 /\ iteration' >= valves.min_depth
                 /\ tree_depth(nodes') >= valves.min_depth]_vars

\* the search has stopped early in iteration 3, the min_depth of the run, on
\* a tree of depth 3, with the best score of 9.0 found in iteration 1 or 2
C37_StoppedAtMinDepth ==
    /\ pc = "done"
    /\ result.report.on
    /\ iteration = valves.min_depth
    /\ iteration = 3
    /\ iteration < valves.max_simulations
    /\ tree_depth(nodes) = 3
    /\ last_entry(best_score_history).iteration \in {1, 2}
    /\ ~RLess(best_score, valves.early_stop_threshold)

(***************************************************************************)
(* Properties of two calls of improve_content in sequence (SpecRuns)       *)
(***************************************************************************)

\* the entries of the history have increasing iterations, the first 0
from_this_run(history) ==
    /\ history # <<>> => history[1].iteration = 0 /\ history[1].node_id = 1
    /\ \A i \in 1..(Len(history) - 1) : history[i].iteration < history[i + 1].iteration
    /\ \A i \in 1..Len(history) : history[i].iteration <= iteration

\* C22: the second call on an instance sees nothing of the first: up to its
\* first request last_error, metrics and metrics_desc are None and the
\* counter is 0; its nodes are numbered from n1 in creation order; once its
\* goal step is done the goal is the one inferred in this call or the
\* default, never the goal of the first call; and while it searches the
\* score history holds entries of this call only.
C22_NoCrossRunPersistence ==
    env = "second run" =>
        /\ pc = "test_api" =>
               /\ last_error = NoneStr
               /\ metrics = NoneStr
               /\ metrics_desc = <<>>
               /\ node_counter = 0
        /\ \A n \in 1..Len(nodes) : nodes[n].id = n
        /\ node_counter = Len(nodes)
        /\ (pc \notin {"test_api", "infer_goal", "raised"} /\ result.head # ErrorApi(<<>>).head)
               => goal \in {GoalText, DefaultGoal}
        /\ root # 0 => from_this_run(best_score_history)
        /\ (pc = "done" /\ result.report.on) =>
               /\ result.report.goal \in {GoalText, DefaultGoal}
               /\ result.report.best_id \in 1..Len(nodes)
        /\ (pc = "done" /\ result.head = ErrorMetrics(<<>>).head) =>
               /\ result.detail = <<"API", 404>>
               /\ metrics = NoneStr

\* the second call has searched and returned its report, with the default
\* goal and a tree of its own
C22_SecondRunReported ==
    /\ env = "second run"
    /\ pc = "done"
    /\ result.report.on
    /\ result.report.goal = DefaultGoal
    /\ Len(nodes) >= 2
    /\ Len(best_score_history) >= 1

(***************************************************************************)
(* Properties of _generate_metrics (SpecMetrics)                           *)
(***************************************************************************)

\* the lines of the text that contain a colon
colon_lines(s) ==
    SelectSeq(split_on(s, "\n", <<>>, <<>>), LAMBDA l : ":" \in ToSet(l))

\* C17: for every text the metric-generation call returns, _generate_metrics
\* succeeds with 3 to 5 metric names, and with exactly the default list
\* COMPLETENESS, CLARITY, DEPTH, ACCURACY, ENGAGEMENT when fewer than 3
\* lines of the text contain a colon.
C17_MetricsNeverAbort ==
    (gm.on /\ gm.done /\ Truthy(gm.result)) =>
        /\ gm.ok
        /\ Len(gm.metrics) \in 3..5
        /\ Len(colon_lines(gm.result)) < 3 => gm.metrics = DefaultMetrics

\* six lines with a colon gave five metrics, not the default ones
C17_FiveOfSixLines ==
    /\ gm.on
    /\ gm.done
    /\ Truthy(gm.result)
    /\ Len(colon_lines(gm.result)) = 6
    /\ Len(gm.metrics) = 5
    /\ gm.metrics # DefaultMetrics

(***************************************************************************)
(* Properties of _llm_call (SpecLlm)                                       *)
(***************************************************************************)

\* the request answered by resp returns text
returns_text(resp) ==
    /\ resp.kind = "http"
    /\ resp.status = 200
    /\ resp.shape \in KnownShapes
    /\ strip(resp.content) # <<>>

\* C6: one _llm_call issues at most max_retries requests and none after a
\* request that returned text; it has returned exactly when its last request
\* returned text or max_retries requests were issued, and it returns that
\* text, or None when every request failed.
C6_RetriesUntilText ==
    llm.on =>
        /\ Len(llm.log) <= llm.max_retries
        /\ \A i \in 1..(Len(llm.log) - 1) : ~returns_text(llm.log[i])
        /\ llm.done <=>
               /\ llm.log # <<>>
               /\ returns_text(llm.log[Len(llm.log)]) \/ Len(llm.log) = llm.max_retries
        /\ llm.done =>
               llm.result = IF returns_text(llm.log[Len(llm.log)])
                            THEN strip(llm.log[Len(llm.log)].content)
                            ELSE NoneStr

\* two 503s then a success with max_retries = 3: three requests, the text
C6_TwoFailuresThenSuccess ==
    /\ llm.on
    /\ llm.max_retries = 3
    /\ Len(llm.log) = 3
    /\ llm.log[1].status = 503
    /\ llm.log[2].status = 503
    /\ returns_text(llm.log[3])
    /\ llm.done
    /\ llm.result = LlmText

\* C7: a non-200 response whose status is not in {429, 500, 502, 503} ends
\* the call: no request follows it and the call has returned None.
C7_OtherStatusIsTerminal ==
    llm.on =>
        \A i \in 1..Len(llm.log) :
            (/\ llm.log[i].kind = "http"
             /\ llm.log[i].status # 200
             /\ llm.log[i].status \notin RetryableStatus)
                => (i = Len(llm.log) /\ llm.done /\ llm.result = NoneStr)

(***************************************************************************)
(* Properties of _evaluate_node (SpecEval)                                 *)
(***************************************************************************)

\* C3: for every text an evaluation can be answered with and for a failed
\* call, the scores stored give every metric of the run a value in
\* [1.0, 10.0], and the total score is in [1.0, 10.0].
C3_ScoresInRange ==
    (ev.on /\ ev.done) =>
        /\ \A i \in 1..Len(ev.metrics) :
               /\ has_key(ev.scores, ev.metrics[i])
               /\ RLeq(<<1, 1>>, get(ev.scores, ev.metrics[i], <<0, 1>>))
               /\ RLeq(get(ev.scores, ev.metrics[i], <<0, 1>>), <<10, 1>>)
        /\ RLeq(<<1, 1>>, ev.total)
        /\ RLeq(ev.total, <<10, 1>>)

\* "tone: 15" is stored as 10.0 for TONE
C3_OutOfRangeClamped ==
    /\ ev.on
    /\ ev.done
    /\ ev.response = <<"tone", ":", "15">>
    /\ get(ev.scores, "TONE", <<0, 1>>) = <<10, 1>>

\* the score of metric m in the score map
score_of(scores, m) == get(scores, m, One)

\* C30: the weakest metric of an evaluated node is a metric of the run with
\* the minimum score, and among the metrics that share the minimum the one
\* that comes first in the metric list.
C30_WeakestIsFirstMinimum ==
    (ev.on /\ ev.done) =>
        \E i \in 1..Len(ev.metrics) :
            /\ ev.weak = ev.metrics[i]
            /\ \A j \in 1..Len(ev.metrics) :
                   RLeq(score_of(ev.scores, ev.metrics[i]), score_of(ev.scores, ev.metrics[j]))
            /\ \A j \in 1..(i - 1) :
                   RLess(score_of(ev.scores, ev.metrics[i]), score_of(ev.scores, ev.metrics[j]))

\* the scores of the metrics found as METRIC: number in the response of the
\* evaluation, clamped; none when the call failed
ev_matched ==
    IF Truthy(ev.response) THEN matched_scores(ev.response, ev.metrics, <<>>) ELSE <<>>

\* the bare numbers between 1 and 10 found in the response
ev_numbers == IF Truthy(ev.response) THEN bare_numbers(ev.response) ELSE <<>>

\* the metrics not found as METRIC: number
ev_unmatched == {m \in ToSet(ev.metrics) : ~has_key(ev_matched, m)}

\* C39: after an evaluation, a metric matched as METRIC: number has that
\* number clamped to [1, 10]; if no metric was matched and the response has
\* no bare number in [1, 10] (or the call failed), every metric has 1.0;
\* otherwise, if fewer than half of the metrics were matched, every unmatched
\* metric has the average of the bare numbers in [1, 10] of the response, and
\* if at least half were matched, every unmatched metric has the average of
\* the matched scores.
C39_ParsingDegradesInOrder ==
    (ev.on /\ ev.done) =>
        /\ \A m \in ToSet(ev.metrics) \ ev_unmatched :
               /\ score_of(ev.scores, m) = get(ev_matched, m, One)
               /\ in_range(score_of(ev.scores, m))
        /\ IF ev_matched = <<>> /\ ev_numbers = <<>>
           THEN \A m \in ToSet(ev.metrics) : score_of(ev.scores, m) = One
           ELSE IF 2 * Len(ev_matched) < Len(ev.metrics)
           THEN /\ ev_numbers # <<>>
                /\ \A m \in ev_unmatched : score_of(ev.scores, m) = RAvg(ev_numbers)
           ELSE \A m \in ev_unmatched : score_of(ev.scores, m) = RAvg(values(ev_matched))

(***************************************************************************)
(* Properties of _create_child (SpecChild)                                 *)
(***************************************************************************)

\* C10: a candidate whose word-set Jaccard similarity with its parent is
\* above 0.95 is rejected and one whose similarity is at most 0.95 is
\* accepted when the other checks pass; no node has a similarity above 0.95
\* with its parent.
C10_NearDuplicatesRejected ==
    cand.on =>
        /\ \A n \in 2..Len(cand.nodes) :
               RLeq(similarity(cand.nodes[1].content, cand.nodes[n].content), <<19, 20>>)
        /\ (/\ cand.stage = "done"
            /\ Truthy(cand.new_content)
            /\ len(strip(cand.new_content)) >= 50
            /\ 10 * len(strip(cand.new_content)) >= 7 * len(cand.nodes[1].content))
               => (cand.child # 0
                      <=> RLeq(similarity(cand.nodes[1].content, strip(cand.new_content)),
                               <<19, 20>>))

\* a candidate of similarity 0.97 is rejected after one of similarity 0.80
\* was accepted
C10_Rejected97Accepted80 ==
    /\ cand.on
    /\ cand.stage = "done"
    /\ Truthy(cand.new_content)
    /\ similarity(cand.nodes[1].content, strip(cand.new_content)) = <<97, 100>>
    /\ cand.child = 0
    /\ \E n \in 2..Len(cand.nodes) :
           similarity(cand.nodes[1].content, cand.nodes[n].content) = <<4, 5>>

====
